---- MODULE Spec2Model ----
(***************************************************************************)
(* rift-utils: the command/workflow execution engine of                    *)
(* python/configure/configure.py and the kernel boot-parameter merge of    *)
(* python/configure/commands/configure_grub.py.                            *)
(*                                                                         *)
(* The specifications below share the variables:                           *)
(*   Spec       Workflow.execute as written in configure.py                *)
(*   SpecSteps  the declarative workflow loader and the per-step           *)
(*              environment overlay, which configure.py does not contain   *)
(*   SpecGrub   ReadGrub / GetIommuType / GetGpuPciIds /                   *)
(*              AddGrubVirtualizationOptions / ConfigureMemory /           *)
(*              CreateGrubOverride run repeatedly against the files under  *)
(*              /etc/default                                               *)
(*   SpecInitramfs  UpdateInitramfsModules run repeatedly against          *)
(*              /etc/initramfs-tools/modules                               *)
(*   SpecRegistry   the discovery of commands/__init__.py and the          *)
(*              resolution of a command identifier                         *)
(*   SpecCli    execute_workflow and execute_specific_command              *)
(*   SpecQemu   ensure_qemu_conf_lines and verify_qemu_conf                *)
(*   SpecBuiltin    Workflow.execute over the command lists of             *)
(*              VmOnlyWorkflow, VmAndDockerWorkflow and TestWorkflow       *)
(*   SpecConsumer   AddGrubVirtualizationOptions and CreateGrubOverride    *)
(*              executed on their own                                      *)
(***************************************************************************)
EXTENDS Integers, Sequences, FiniteSets, TLC

VARIABLES
    commands,   \* Workflow.commands: the ordered command instances
    overlays,   \* per-step environment overlays (SpecSteps only)
    pc,         \* state of one execution of Workflow.execute
    i,          \* 1-based index of the step the loop is at
    env,        \* the shared environment dict
    input,      \* what the user typed at the confirmation prompt
    answer,     \* what yes_no_prompt returned
    retval,     \* return value of Workflow.execute
    invoked,    \* step indexes whose execute was called, in call order
    returned,   \* how each invoked execute ended
    observed,   \* the environment each invoked execute was handed
    writes,     \* the keys each invoked execute assigned
    out,        \* the progress report printed so far
    defn,       \* the declarative workflow definition handed to the loader
    command_map,\* commands/__init__.py command_map: class name -> instance
    loadError   \* the config error the loader raised, if any

VARIABLES
    mainFile,   \* /etc/default/grub: whether it exists, and its lines
    grubD,      \* /etc/default/grub.d: file name -> lines
    cpuinfo,    \* the text of /proc/cpuinfo
    lspci,      \* what `lspci -nnk` reports
    genv,       \* the environment of the current run of the merge sequence
    gstep,      \* index in GrubSequence of the next command of the run
    gfailed,    \* a command of the run returned false
    grun,       \* number of the current run
    written,    \* the content of every write of the managed fragment
    lastAdd,    \* the latest AddGrubVirtualizationOptions: inputs and loop trace
    update_grub_runs, \* how often update-grub was run
    lastRead,   \* the latest ReadGrub: the token lists before deduplication
    lastMem     \* the latest ConfigureMemory: inputs and result

VARIABLES
    modules,    \* /etc/initramfs-tools/modules: whether it exists, and its text
    irun,       \* number of runs of UpdateInitramfsModules so far
    ireports,   \* what each run of update_initramfs_modules returned
    ihistory,   \* the text of the modules file after each run
    update_initramfs_runs \* how often update-initramfs was run

VARIABLES
    package,    \* the modules of the commands package, as iter_modules lists them
    ctor,       \* how calling each command class without arguments ends
    rpc,        \* where the discovery of commands/__init__.py is
    midx,       \* index in the package of the module the loop is at
    all_commands, \* commands/__init__.py all_commands
    constructed,  \* every class create_command_instance was called with
    rlog,       \* what discovery printed
    lookup      \* the latest resolution of a command identifier

VARIABLES
    euid,       \* os.geteuid() of the process running configure.py
    mode,       \* which argument main was given: --workflow or --command
    cli_identifier, \* the value of that argument
    cpc,        \* where main is
    selected,   \* the workflow or command the identifier resolved to
    cmd_result, \* how the execute of the command run on its own ended
    rebooted,   \* reboot_prompt ran `reboot`
    exit_status \* the exit status of the process

VARIABLES
    caller_env, \* the dict the caller of Workflow.execute passed as `env`
    env_ref,    \* the object the local name `env` of Workflow.execute refers to
    execution,  \* number of the current call of Workflow.execute
    left_env,   \* the environment the previous call of Workflow.execute left
    effects     \* what each invoked execute did outside the environment

VARIABLES
    qemu_conf,  \* /etc/libvirt/qemu.conf: whether it exists, and its text
    qhistory,   \* every call of ensure_qemu_conf_lines: file before, result, file after
    verified    \* the latest call of verify_qemu_conf: the file and the result

grubVars == <<mainFile, grubD, cpuinfo, lspci, genv, gstep, gfailed, grun,
              written, lastAdd, update_grub_runs, lastRead, lastMem>>

initramfsVars == <<modules, irun, ireports, ihistory, update_initramfs_runs>>

loaderVars == <<defn, command_map, loadError>>

engineVars == <<commands, overlays, pc, i, env, input, answer, retval,
                invoked, returned, observed, writes, out>>

registryVars == <<package, ctor, rpc, midx, all_commands, constructed, rlog, lookup>>

cliVars == <<euid, mode, cli_identifier, cpc, selected, cmd_result, rebooted, exit_status>>

qemuVars == <<qemu_conf, qhistory, verified>>

builtinVars == <<caller_env, env_ref, execution, left_env, effects>>

auxVars == <<registryVars, cliVars, qemuVars, builtinVars>>

\* everything Workflow.execute does not touch
otherVars == <<loaderVars, grubVars, initramfsVars, auxVars>>

vars == <<engineVars, otherVars>>

----------------------------------------------------------------------------
\* the merge sequence is not running
GrubIdle ==
    /\ mainFile = [exists |-> FALSE, lines |-> <<>>]
    /\ grubD = <<>>
    /\ cpuinfo = <<>>
    /\ lspci = [fails |-> TRUE, lines |-> <<>>]
    /\ genv = <<>>
    /\ gstep = 1
    /\ gfailed = FALSE
    /\ grun = 1
    /\ written = <<>>
    /\ lastAdd = <<>>
    /\ update_grub_runs = 0
    /\ lastRead = <<>>
    /\ lastMem = <<>>

\* UpdateInitramfsModules is not running
InitramfsIdle ==
    /\ modules = [exists |-> FALSE, text |-> <<>>]
    /\ irun = 0
    /\ ireports = <<>>
    /\ ihistory = <<>>
    /\ update_initramfs_runs = 0

\* the discovery of commands/__init__.py is not running
RegistryIdle ==
    /\ package = <<>>
    /\ ctor = <<>>
    /\ rpc = "idle"
    /\ midx = 1
    /\ all_commands = <<>>
    /\ constructed = <<>>
    /\ rlog = <<>>
    /\ lookup = <<>>

\* configure.py is not running as a process
CliIdle ==
    /\ euid = 0
    /\ mode = "none"
    /\ cli_identifier = ""
    /\ cpc = "idle"
    /\ selected = "None"
    /\ cmd_result = <<>>
    /\ rebooted = FALSE
    /\ exit_status = "running"

\* nothing is working on qemu.conf
QemuIdle ==
    /\ qemu_conf = [exists |-> FALSE, text |-> <<>>]
    /\ qhistory = <<>>
    /\ verified = <<>>

\* no built-in workflow is being executed
BuiltinIdle ==
    /\ caller_env = <<>>
    /\ env_ref = "local"
    /\ execution = 1
    /\ left_env = <<>>
    /\ effects = <<>>

AuxIdle == RegistryIdle /\ CliIdle /\ QemuIdle /\ BuiltinIdle

----------------------------------------------------------------------------
(* Bounds and the inputs of Workflow.execute *)

MaxSteps == 3

CommandClasses == {"CmdA", "CmdB"}
Keys == {"K1", "K2"}
Vals == {"v1", "v2"}
ErrMsgs == {"boom"}
Inputs == {"", "y", "Y", "n", "N", "yes", "no"}

EmptyEnv == [k \in {} |-> "v1"]

\* the assignments one execute makes to the environment
WriteSets == {EmptyEnv} \cup {[k \in {key} |-> v] : key \in Keys, v \in Vals}

\* how a call of command.execute(env) can end
Outcomes ==
    {[kind |-> "return", value |-> v, msg |-> ""] : v \in {"True", "False", "None"}}
    \cup {[kind |-> "raise", value |-> "", msg |-> m] : m \in ErrMsgs}
    \cup {[kind |-> "exit", value |-> "", msg |-> ""]}

SeqsUpTo(S, n) == UNION {[1..m -> S] : m \in 0..n}

----------------------------------------------------------------------------
(* commands/cmd.py and commands/utils.py *)

\* BaseCmd.name(): the class name unless a subclass overrides it
name(cmd) == cmd

\* BaseCmd.description()
description(cmd) == "No description provided."

\* str.lower() on the answers of Inputs
lower(s) ==
    CASE s = "Y" -> "y"
      [] s = "N" -> "n"
      [] OTHER -> s

yes_no_prompt_always(default, typed) == TRUE

\* yes_no_prompt: (input() or default_input).lower() == 'y'
yes_no_prompt(default, typed) ==
    LET default_input == IF default THEN "y" ELSE "n"
    IN lower(IF typed = "" THEN default_input ELSE typed) = "y"

----------------------------------------------------------------------------
(* Workflow.execute, configure.py 59-103 *)

\* dict assignment env[k] = v for every k of w
Assign(e, w) ==
    [k \in DOMAIN e \cup DOMAIN w |-> IF k \in DOMAIN w THEN w[k] ELSE e[k]]

\* `if success:` -- Python truthiness of the value execute returned
Truthy(value) == value = "True"

CaughtNothing(o) == FALSE

\* `except Exception`: SystemExit is a BaseException and is not caught
Caught(o) == o.kind = "raise"

AfterStepIgnoreFailure(o) ==
    IF o.kind = "exit" THEN "exit" ELSE "continue"

\* what the loop body does with the way execute ended (lines 84-96)
AfterStep(o) ==
    CASE o.kind = "return" /\ Truthy(o.value) -> "continue"
      [] o.kind = "return" /\ ~Truthy(o.value) -> "fail"
      [] o.kind = "raise" /\ Caught(o) -> "fail_exception"
      [] OTHER -> "exit"

NextIndexSkipping(k) == k + 2

\* enumerate(self.commands, start=1) advances by one
NextIndex(k) == k + 1

FreshEnvForStep(e) == EmptyEnv

\* command.execute(env): every step is handed the same dict object
EnvForStep(e) == e

\* `if yes_no_prompt(...) is False: return None`
Cancels(ans) == ans = FALSE

StartReport(k) ==
    [kind |-> "start", step |-> k, total |-> Len(commands),
     name |-> name(commands[k]), description |-> description(commands[k]), msg |-> ""]

OutcomeReport(k, o) ==
    LET what == AfterStep(o)
    IN  IF what = "continue"
        THEN <<[kind |-> "success", step |-> k, total |-> Len(commands),
                name |-> "", description |-> "", msg |-> ""]>>
        ELSE IF what = "fail"
        THEN <<[kind |-> "failed", step |-> k, total |-> Len(commands),
                name |-> name(commands[k]), description |-> "", msg |-> ""]>>
        ELSE IF what = "fail_exception"
        THEN <<[kind |-> "exception", step |-> k, total |-> Len(commands),
                name |-> name(commands[k]), description |-> "", msg |-> o.msg]>>
        ELSE <<>>

\* lines 60-76: overview, confirmation prompt, `env = {}`
Confirm ==
    /\ pc = "Pending"
    /\ \E typed \in Inputs:
        LET ans == yes_no_prompt(TRUE, typed)
        IN  /\ input' = typed
            /\ answer' = (IF ans THEN "True" ELSE "False")
            /\ IF Cancels(ans)
               THEN /\ pc' = "Cancelled"
                    /\ retval' = "None"
                    /\ out' = Append(out, [kind |-> "cancelled", step |-> 0, total |-> Len(commands),
                                           name |-> "", description |-> "", msg |-> ""])
                    /\ UNCHANGED env
               ELSE /\ pc' = "Running"
                    /\ env' = EmptyEnv
                    /\ UNCHANGED <<retval, out>>
    /\ UNCHANGED <<commands, overlays, i, invoked, returned, observed, writes>>
    /\ UNCHANGED otherVars

\* one iteration of the loop of lines 79-99, the step being handed `handed`
ExecuteStep(handed) ==
    \E o \in Outcomes, w \in WriteSets:
        LET what == AfterStep(o)
        IN  /\ invoked' = Append(invoked, i)
            /\ returned' = Append(returned, o)
            /\ observed' = Append(observed, handed)
            /\ writes' = Append(writes, w)
            /\ env' = Assign(handed, w)
            /\ out' = Append(out, StartReport(i)) \o OutcomeReport(i, o)
            /\ IF what = "continue"
               THEN /\ i' = NextIndex(i)
                    /\ UNCHANGED <<pc, retval>>
               ELSE IF what \in {"fail", "fail_exception"}
               THEN /\ pc' = "Failed"
                    /\ retval' = "False"
                    /\ UNCHANGED i
               ELSE /\ pc' = "Exited"
                    /\ UNCHANGED <<i, retval>>
            /\ UNCHANGED <<commands, overlays, input, answer>>
            /\ UNCHANGED otherVars

Step ==
    /\ pc = "Running"
    /\ i <= Len(commands)
    /\ ExecuteStep(EnvForStep(env))

\* lines 101-103: the loop ran out of commands
Finish ==
    /\ pc = "Running"
    /\ i > Len(commands)
    /\ pc' = "Completed"
    /\ retval' = "True"
    /\ out' = Append(out, [kind |-> "all_completed", step |-> 0, total |-> Len(commands),
                           name |-> "", description |-> "", msg |-> ""])
    /\ UNCHANGED <<commands, overlays, i, env, input, answer, invoked, returned,
                   observed, writes>>
    /\ UNCHANGED otherVars

InitExecution ==
    /\ pc = "Pending"
    /\ i = 1
    /\ env = EmptyEnv
    /\ input = "unasked"
    /\ answer = "unasked"
    /\ retval = "unset"
    /\ invoked = <<>>
    /\ returned = <<>>
    /\ observed = <<>>
    /\ writes = <<>>
    /\ out = <<>>

NoDefinition == [name |-> FALSE, commands |-> FALSE, entries |-> <<>>]

NoError == [kind |-> "none", id |-> ""]

\* a workflow built in code, as VmOnlyWorkflow.__init__ builds self.commands
Init ==
    /\ commands \in SeqsUpTo(CommandClasses, MaxSteps)
    /\ overlays = <<>>
    /\ defn = NoDefinition
    /\ command_map = [c \in CommandClasses |-> c]
    /\ loadError = NoError
    /\ InitExecution
    /\ GrubIdle
    /\ InitramfsIdle
    /\ AuxIdle

\* no workflow is being executed
EngineIdle ==
    /\ commands = <<>>
    /\ overlays = <<>>
    /\ defn = NoDefinition
    /\ command_map = <<>>
    /\ loadError = NoError
    /\ InitExecution

Next == Confirm \/ Step \/ Finish

Spec == Init /\ [][Next]_vars

Terminal == pc \in {"Completed", "Failed", "Cancelled", "Exited"}

Last(s) == s[Len(s)]

Max(S) == CHOOSE x \in S: \A y \in S: y <= x

----------------------------------------------------------------------------
(* Claims about Workflow.execute, checked under Spec *)

\* C1: once a step's execute has returned false, no step with a greater index
\* has been invoked, the execution is Failed with return value False, and the
\* last report names that step's index as the failing one.
C1_FailFast ==
    \A k \in 1..Len(returned):
        (returned[k].kind = "return" /\ returned[k].value = "False") =>
            /\ \A j \in 1..Len(invoked): invoked[j] <= invoked[k]
            /\ pc = "Failed"
            /\ retval = "False"
            /\ Last(out).kind = "failed"
            /\ Last(out).step = invoked[k]

C1_Witness ==
    /\ Len(commands) = 3
    /\ Len(returned) = 2
    /\ returned[2].kind = "return" /\ returned[2].value = "False"
    /\ invoked = <<1, 2>>
    /\ pc = "Failed"

\* C2: when the user declines the confirmation prompt, no step's execute is
\* invoked and the execution is Cancelled with return value None, which is
\* neither True (Completed) nor False (Failed).
C2_Cancellation ==
    (input \in {"n", "N", "no"} \/ answer = "False") =>
        /\ invoked = <<>>
        /\ pc = "Cancelled"
        /\ retval = "None"
        /\ retval \notin {"True", "False"}

C2_Witness ==
    /\ input = "n"
    /\ Len(commands) = 3
    /\ pc = "Cancelled"

\* C3: a finished execution returned True exactly when the prompt was accepted
\* and every step was invoked exactly once, in declared order, each returning
\* true.
C3_CompletedIff ==
    Terminal =>
        ((retval = "True") <=>
            /\ answer = "True"
            /\ invoked = [k \in 1..Len(commands) |-> k]
            /\ Len(returned) = Len(commands)
            /\ \A k \in 1..Len(returned):
                returned[k].kind = "return" /\ returned[k].value = "True")

C3_Witness ==
    /\ pc = "Completed"
    /\ retval = "True"
    /\ Len(commands) = 3
    /\ invoked = <<1, 2, 3>>

\* C4: when a step's execute raises an Exception, that step is the last one
\* invoked, the execution is Failed with return value False (the exception
\* does not leave Workflow.execute), and the last report carries the step
\* index, the command name and the error message.
C4_RaiseHandled ==
    \A k \in 1..Len(returned):
        returned[k].kind = "raise" =>
            /\ k = Len(returned)
            /\ \A j \in 1..Len(invoked): invoked[j] <= invoked[k]
            /\ pc = "Failed"
            /\ retval = "False"
            /\ Last(out).kind = "exception"
            /\ Last(out).step = invoked[k]
            /\ Last(out).name = name(commands[invoked[k]])
            /\ Last(out).msg = returned[k].msg

C4_Witness ==
    /\ Len(commands) = 3
    /\ Len(returned) = 2
    /\ returned[2].kind = "raise"
    /\ pc = "Failed"
    /\ Last(out).msg = "boom"

\* C5: the environment handed to the j-th invoked step holds every key that
\* an earlier step of the same execution assigned, with the value of the
\* latest such assignment.
C5_SharedEnvironment ==
    \A j \in 1..Len(observed):
        \A key \in Keys:
            LET writers == {k \in 1..(j - 1): key \in DOMAIN writes[k]}
            IN  writers # {} =>
                    /\ key \in DOMAIN observed[j]
                    /\ observed[j][key] = writes[Max(writers)][key]

C5_Witness ==
    /\ Len(observed) = 3
    /\ writes[1] = [k \in {"K1"} |-> "v1"]
    /\ writes[2] = [k \in {"K1"} |-> "v2"]
    /\ "K1" \in DOMAIN observed[3]
    /\ observed[3]["K1"] = "v2"

----------------------------------------------------------------------------
(* commands/__init__.py: lookup in the registry *)

get_command_lenient(id) ==
    IF id \in DOMAIN command_map THEN command_map[id] ELSE "CmdA"

\* get_command: command_map.get(name), None for an unregistered name
get_command(id) ==
    IF id \in DOMAIN command_map THEN command_map[id] ELSE "None"

----------------------------------------------------------------------------
(* The declarative workflow loader and the per-step environment overlay.   *)
(* configure.py builds its workflows in code and holds bare commands, so   *)
(* this part follows spec.md sections 3, 4.3 and 4.4.                      *)

MaxEntries == 2

UnknownIds == {"NoSuchCmd"}

OverlaySets == {EmptyEnv, [k \in {"K1"} |-> "v2"], [k \in {"K2"} |-> "v1"]}

\* a command entry: a bare identifier (empty overlay) or {name, environment}
Entries == [name : CommandClasses \cup UnknownIds, environment : OverlaySets]

\* a definition document: whether `name` and `commands` are present, and the
\* entries of `commands`
Definitions ==
    {d \in [name : BOOLEAN, commands : BOOLEAN, entries : SeqsUpTo(Entries, MaxEntries)] :
        ~d.commands => d.entries = <<>>}

Min(S) == CHOOSE x \in S: \A y \in S: x <= y

Unresolved(d) ==
    {k \in 1..Len(d.entries) : get_command(d.entries[k].name) = "None"}

\* the config error parse(source) fails with, NoError when it succeeds
ParseError(d) ==
    IF ~d.name THEN [kind |-> "ConfigError", id |-> "name"]
    ELSE IF ~d.commands THEN [kind |-> "ConfigError", id |-> "commands"]
    ELSE IF Unresolved(d) # {}
    THEN [kind |-> "ConfigError", id |-> d.entries[Min(Unresolved(d))].name]
    ELSE NoError

\* parse(source) -> Workflow
Parse ==
    /\ pc = "Unparsed"
    /\ LET err == ParseError(defn)
       IN  IF err.kind # "none"
           THEN /\ pc' = "ConfigError"
                /\ loadError' = err
                /\ UNCHANGED <<commands, overlays>>
           ELSE /\ pc' = "Pending"
                /\ commands' = [k \in 1..Len(defn.entries) |-> get_command(defn.entries[k].name)]
                /\ overlays' = [k \in 1..Len(defn.entries) |-> defn.entries[k].environment]
                /\ UNCHANGED loadError
    /\ UNCHANGED <<i, env, input, answer, retval, invoked, returned, observed, writes, out>>
    /\ UNCHANGED <<defn, command_map>>
    /\ UNCHANGED <<grubVars, initramfsVars, auxVars>>

\* the overlay is merged into the shared environment, overlay winning
MergeOverlay(e, overlay) == Assign(e, overlay)

\* one iteration of the loop over WorkflowSteps: merge, then execute
StepOverlay ==
    /\ pc = "Running"
    /\ i <= Len(commands)
    /\ ExecuteStep(MergeOverlay(EnvForStep(env), overlays[i]))

InitSteps ==
    /\ defn \in Definitions
    /\ command_map \in {[c \in R |-> c] : R \in SUBSET CommandClasses}
    /\ loadError = NoError
    /\ commands = <<>>
    /\ overlays = <<>>
    /\ pc = "Unparsed"
    /\ i = 1
    /\ env = EmptyEnv
    /\ input = "unasked"
    /\ answer = "unasked"
    /\ retval = "unset"
    /\ invoked = <<>>
    /\ returned = <<>>
    /\ observed = <<>>
    /\ writes = <<>>
    /\ out = <<>>
    /\ GrubIdle
    /\ InitramfsIdle
    /\ AuxIdle

NextSteps == Parse \/ Confirm \/ StepOverlay \/ Finish

SpecSteps == InitSteps /\ [][NextSteps]_vars

----------------------------------------------------------------------------
(* Claims about the overlay and the loader, checked under SpecSteps *)

\* the assignments to `key` that precede the execute of the j-th invoked
\* step: overlay of step k has rank 2k-1, the writes of step k rank 2k
Contributions(j, key) ==
    {2 * k - 1 : k \in {m \in 1..j : key \in DOMAIN overlays[invoked[m]]}}
    \cup {2 * k : k \in {m \in 1..(j - 1) : key \in DOMAIN writes[m]}}

ContributedValue(rank, key) ==
    IF rank % 2 = 1 THEN overlays[invoked[(rank + 1) \div 2]][key]
    ELSE writes[rank \div 2][key]

\* C6: the environment a step's command is handed holds the step's own
\* overlay (winning over any earlier value of the same key) and, for every
\* other key, the latest earlier overlay or write; it holds nothing of the
\* overlays of later steps, so an overlay never alters what an earlier step
\* observed.
C6_OverlayIsolation ==
    \A j \in 1..Len(observed):
        \A key \in Keys:
            LET c == Contributions(j, key)
            IN  IF c = {} THEN key \notin DOMAIN observed[j]
                ELSE /\ key \in DOMAIN observed[j]
                     /\ observed[j][key] = ContributedValue(Max(c), key)

C6_Witness ==
    /\ overlays = <<[k \in {"K2"} |-> "v1"], [k \in {"K1"} |-> "v2"]>>
    /\ Len(observed) = 2
    /\ writes[1] = [k \in {"K1"} |-> "v1"]
    /\ observed[1] = [k \in {"K2"} |-> "v1"]
    /\ observed[2] = [k \in {"K1", "K2"} |-> IF k = "K1" THEN "v2" ELSE "v1"]

\* C7: a definition that lacks `name` or `commands`, or references an
\* identifier the registry does not resolve, ends in a config error at load
\* time with no execute ever invoked; for an unresolved reference the error
\* names an unresolved identifier of the definition.
C7_LoadValidation ==
    LET unknown == {defn.entries[k].name : k \in 1..Len(defn.entries)} \ DOMAIN command_map
        bad == ~defn.name \/ ~defn.commands \/ unknown # {}
    IN  /\ bad => invoked = <<>>
        /\ (bad /\ pc # "Unparsed") =>
                (pc = "ConfigError" /\ loadError.kind = "ConfigError")
        /\ (pc = "ConfigError" /\ defn.name /\ defn.commands) => loadError.id \in unknown

C7_Witness ==
    /\ pc = "ConfigError"
    /\ defn.name /\ defn.commands
    /\ Len(defn.entries) = 2
    /\ defn.entries[1].name = "CmdA"
    /\ defn.entries[2].name = "NoSuchCmd"
    /\ "CmdA" \in DOMAIN command_map
    /\ loadError.id = "NoSuchCmd"

----------------------------------------------------------------------------
(* Python strings.  A str is a sequence of one-character strings, so that  *)
(* split, join, startswith, `in`, sorted, repr and the regular expressions *)
(* of configure_grub.py are computed character by character.               *)

\* the characters of the model in code point order
Alphabet ==
    <<" ", "\"", "'", ",", "-", ".",
      "0", "1", "2", "3", "4", "5", "6", "7", "8", "9", ":", "=",
      "G", "[", "\\", "]", "_",
      "a", "b", "c", "d", "e", "f", "g", "h", "i", "j", "k", "l", "m",
      "n", "o", "p", "q", "r", "s", "t", "u", "v", "w", "x", "y", "z">>

\* ord(c), up to the order-preserving renumbering of Alphabet
Ord == [c \in {Alphabet[n] : n \in 1..Len(Alphabet)} |->
            CHOOSE n \in 1..Len(Alphabet) : Alphabet[n] = c]

\* a < b on str: lexicographic by code point
RECURSIVE StrLessFrom(_, _, _)
StrLessFrom(a, b, k) ==
    IF k > Len(b) THEN FALSE
    ELSE IF k > Len(a) THEN TRUE
    ELSE IF a[k] = b[k] THEN StrLessFrom(a, b, k + 1)
    ELSE Ord[a[k]] < Ord[b[k]]

StrLess(a, b) == StrLessFrom(a, b, 1)

\* set(list)
ToSet(list) == {list[k] : k \in 1..Len(list)}

\* sorted(S) for a set of str
RECURSIVE sorted(_)
sorted(S) ==
    IF S = {} THEN <<>>
    ELSE LET first == CHOOSE x \in S : \A y \in S : x = y \/ StrLess(x, y)
         IN  <<first>> \o sorted(S \ {first})

\* str.split(): the maximal runs of non-whitespace characters, left to right
split(s) ==
    LET starts == {k \in 1..Len(s) : s[k] # " " /\ (k = 1 \/ s[k - 1] = " ")}
        EndOf(k) == CHOOSE j \in k..Len(s) :
                        /\ \A m \in k..j : s[m] # " "
                        /\ (j = Len(s) \/ s[j + 1] = " ")
        Nth(n) == CHOOSE k \in starts : Cardinality({j \in starts : j < k}) = n - 1
    IN  [n \in 1..Cardinality(starts) |-> SubSeq(s, Nth(n), EndOf(Nth(n)))]

\* sep.join(list)
RECURSIVE join(_, _)
join(sep, list) ==
    IF list = <<>> THEN <<>>
    ELSE IF Len(list) = 1 THEN list[1]
    ELSE list[1] \o sep \o join(sep, Tail(list))

\* s.startswith(prefix)
startswith(s, prefix) ==
    Len(prefix) <= Len(s) /\ SubSeq(s, 1, Len(prefix)) = prefix

\* s.endswith(suffix)
endswith(s, suffix) ==
    Len(suffix) <= Len(s) /\ SubSeq(s, Len(s) - Len(suffix) + 1, Len(s)) = suffix

\* `sub in s` on str
contains(sub, s) ==
    \E k \in 0..(Len(s) - Len(sub)) : SubSeq(s, k + 1, k + Len(sub)) = sub

\* the text of s before the first occurrence of character c (all of s if none)
Before(s, c) ==
    LET at == {k \in 1..Len(s) : s[k] = c}
    IN  IF at = {} THEN s
        ELSE SubSeq(s, 1, (CHOOSE k \in at : \A j \in at : k <= j) - 1)

\* opt.split('=')[0]
split_eq_0(opt) == Before(opt, "=")

\* repr(s) of a str: double quotes when s holds ' and no ", single quotes
\* otherwise; the quote character and the backslash get a backslash before
\* them
repr_str(s) ==
    LET chars == ToSet(s)
        q == IF "'" \in chars /\ "\"" \notin chars THEN "\"" ELSE "'"
        escaped == {k \in 1..Len(s) : s[k] = q \/ s[k] = "\\"}
        \* where the text of character k starts in the output
        Pos(k) == k + Cardinality({e \in escaped : e < k})
        body == [j \in 1..(Len(s) + Cardinality(escaped)) |->
                    IF \E k \in 1..Len(s) : Pos(k) = j
                    THEN LET k == CHOOSE k \in 1..Len(s) : Pos(k) = j
                         IN  IF k \in escaped THEN "\\" ELSE s[k]
                    ELSE s[CHOOSE k \in escaped : Pos(k) + 1 = j]]
    IN  <<q>> \o body \o <<q>>

\* str(list) of a list of str
str_list(list) ==
    <<"[">> \o join(<<",", " ">>, [k \in 1..Len(list) |-> repr_str(list[k])]) \o <<"]">>

\* an environment value: a str or a list of str
StrVal(s) == [kind |-> "str", s |-> s, items |-> <<>>]
ListVal(items) == [kind |-> "list", s |-> <<>>, items |-> items]

\* f'{value}': a str as it is, a list through str(list)
Format(v) == IF v.kind = "str" THEN v.s ELSE str_list(v.items)

----------------------------------------------------------------------------
(* configure_grub.py: the files and the baseline read *)

GRUB_CMDLINE_LINUX_DEFAULT == "GRUB_CMDLINE_LINUX_DEFAULT"
GRUB_CMDLINE_LINUX == "GRUB_CMDLINE_LINUX"

\* os.path.basename(VFIO_GRUB_FILE)
VFIO_GRUB_NAME == <<"9", "9", "-", "c", "l", "o", "u", "d", "r", "i", "f", "t", ".", "c", "f", "g">>

\* a line PARAM="value" of a grub file
Line(param, value) == [param |-> param, value |-> value]

\* group(1) of PARAM="([^"]*)" on the line PARAM="value": the value up to its
\* first double quote
QuotedGroup(value) == Before(value, "\"")

\* read_options_from_file on the lines of a file.  The names of the managed
\* parameters hold characters no value of the model holds, so parameter
\* GRUB_CMDLINE_LINUX="... is matched on lines of that parameter only.
RECURSIVE read_options_from_file(_, _)
read_options_from_file(lines, param_name) ==
    IF lines = <<>> THEN <<>>
    ELSE (IF lines[1].param = param_name
          THEN split(QuotedGroup(lines[1].value)) ELSE <<>>)
         \o read_options_from_file(Tail(lines), param_name)

CfgFilesReversed(dir) ==
    LET names == SelectSeq(sorted(DOMAIN dir), LAMBDA f : endswith(f, <<".", "c", "f", "g">>))
    IN  [k \in 1..Len(names) |-> names[Len(names) + 1 - k]]

\* sorted(os.listdir(GRUB_D_DIR)) restricted to names ending in .cfg
CfgFiles(dir) ==
    SelectSeq(sorted(DOMAIN dir), LAMBDA f : endswith(f, <<".", "c", "f", "g">>))

RECURSIVE ReadFragments(_, _, _)
ReadFragments(dir, names, param_name) ==
    IF names = <<>> THEN <<>>
    ELSE read_options_from_file(dir[names[1]], param_name)
         \o ReadFragments(dir, Tail(names), param_name)

AccumulatedOptionsBaseRequired(main, dir, param_name) ==
    IF main.exists
    THEN read_options_from_file(main.lines, param_name)
         \o ReadFragments(dir, CfgFiles(dir), param_name)
    ELSE <<>>

\* all_options before deduplication: the base file (nothing when it is
\* missing), then every fragment in sorted filename order
AccumulatedOptions(main, dir, param_name) ==
    (IF main.exists THEN read_options_from_file(main.lines, param_name) ELSE <<>>)
    \o ReadFragments(dir, CfgFiles(dir), param_name)

DedupNothing(all_options) == all_options

\* sorted(list(set(all_options)))
Dedup(all_options) == sorted(ToSet(all_options))

get_existing_grub_parameters(main, dir, param_name) ==
    Dedup(AccumulatedOptions(main, dir, param_name))

----------------------------------------------------------------------------
(* configure_grub.py: the commands *)

IOMMU_TYPE == "IOMMU_TYPE"
GPU_PCI_IDS == "GPU_PCI_IDS"

EmptyDict == [k \in {} |-> StrVal(<<>>)]

\* env[key] = value
SetKey(e, key, value) ==
    [k \in DOMAIN e \cup {key} |-> IF k = key THEN value ELSE e[k]]

\* the result of one execute: what it returned and the environment after it
Result(ok, e) == [ok |-> ok, env |-> e]

\* ReadGrubCmd.execute
ReadGrubCmd(e, main, dir) ==
    Result(TRUE,
           SetKey(SetKey(e, GRUB_CMDLINE_LINUX_DEFAULT,
                         ListVal(get_existing_grub_parameters(main, dir, GRUB_CMDLINE_LINUX_DEFAULT))),
                  GRUB_CMDLINE_LINUX,
                  ListVal(get_existing_grub_parameters(main, dir, GRUB_CMDLINE_LINUX))))

\* GetIommuTypeCmd.execute: 'AMD' in open('/proc/cpuinfo').read()
GetIommuTypeCmd(e, cpu) ==
    Result(TRUE,
           SetKey(e, IOMMU_TYPE,
                  StrVal(IF contains(<<"A", "M", "D">>, cpu) THEN <<"a", "m", "d", "_", "i", "o", "m", "m", "u", "=", "o", "n">>
                         ELSE <<"i", "n", "t", "e", "l", "_", "i", "o", "m", "m", "u", "=", "o", "n">>)))

\* the ids of the NVIDIA lines of `lspci -nnk` that carry a [vvvv:dddd] match
MatchedIds(lines) ==
    LET matching == SelectSeq(lines, LAMBDA l : l.nvidia /\ l.id # <<>>)
    IN  [k \in 1..Len(matching) |-> matching[k].id]

\* GetGpuPciIdsCmd.execute
GetGpuPciIdsCmd(e, lspci_out) ==
    IF lspci_out.fails THEN Result(FALSE, e)
    ELSE IF \A k \in 1..Len(lspci_out.lines) : ~lspci_out.lines[k].nvidia
    THEN Result(FALSE, e)
    ELSE Result(TRUE, SetKey(e, GPU_PCI_IDS,
                             ListVal(sorted(ToSet(MatchedIds(lspci_out.lines))))))

VFIO_PCI_IDS_PREFIX == <<"v", "f", "i", "o", "-", "p", "c", "i", ".", "i", "d", "s", "=">>
MODPROBE_BLACKLIST_PREFIX == <<"m", "o", "d", "p", "r", "o", "b", "e", ".", "b", "l", "a", "c", "k", "l", "i", "s", "t", "=">>
MODPROBE_BLACKLIST == <<"m", "o", "d", "p", "r", "o", "b", "e", ".", "b", "l", "a", "c", "k", "l", "i", "s", "t", "=", "n", "o", "u", "v", "e", "a", "u", ",", "n", "v", "i", "d", "i", "a", ",", "n", "v", "i", "d", "i", "a", "f", "b", ",", "s", "n", "d", "_", "h", "d", "a", "_", "i", "n", "t", "e", "l">>

\* new_options before the vfio options are appended (lines 199-206)
AtomicOptions(iommu_type) ==
    <<<<"i", "o", "m", "m", "u", "=", "p", "t">>, <<"p", "c", "i", "=", "r", "e", "a", "l", "l", "o", "c">>, <<"p", "c", "i", "e", "_", "a", "s", "p", "m", "=", "o", "f", "f">>, iommu_type,
      <<"n", "o", "m", "o", "d", "e", "s", "e", "t">>, <<"v", "i", "d", "e", "o", "=", "e", "f", "i", "f", "b", ":", "o", "f", "f">>>>

\* lines 208-213
NewOptions(iommu_type, vfio_ids_str) ==
    AtomicOptions(iommu_type)
    \o (IF vfio_ids_str # <<>>
        THEN <<VFIO_PCI_IDS_PREFIX \o vfio_ids_str, MODPROBE_BLACKLIST>>
        ELSE <<>>)

\* lines 216-221: a list is copied, a str is split
WorkingList(grub_cmdline) ==
    IF grub_cmdline.kind = "list" THEN grub_cmdline.items ELSE split(grub_cmdline.s)

\* any(opt.split('=')[0] in existing_opt for existing_opt in final_options_list)
AlreadyPresent(opt, final_options_list) ==
    \E k \in 1..Len(final_options_list) :
        contains(split_eq_0(opt), final_options_list[k])

\* the loop of lines 223-226
RECURSIVE AdditiveLoop(_, _)
AdditiveLoop(final_options_list, new_options) ==
    IF new_options = <<>> THEN final_options_list
    ELSE AdditiveLoop(IF AlreadyPresent(new_options[1], final_options_list)
                      THEN final_options_list
                      ELSE Append(final_options_list, new_options[1]),
                      Tail(new_options))

\* for every option of the loop: the list it was checked against and whether
\* it was appended
RECURSIVE AdditiveTrace(_, _)
AdditiveTrace(final_options_list, new_options) ==
    IF new_options = <<>> THEN <<>>
    ELSE LET present == AlreadyPresent(new_options[1], final_options_list)
         IN  <<[opt |-> new_options[1], before |-> final_options_list,
                appended |-> ~present]>>
             \o AdditiveTrace(IF present THEN final_options_list
                              ELSE Append(final_options_list, new_options[1]),
                              Tail(new_options))

KeepExclusive(list) == list

\* lines 230-231: drop every vfio-pci.ids= and modprobe.blacklist= token
RemoveExclusive(list) ==
    SelectSeq(list, LAMBDA opt : ~startswith(opt, VFIO_PCI_IDS_PREFIX)
                                 /\ ~startswith(opt, MODPROBE_BLACKLIST_PREFIX))

\* lines 232-234
AppendExclusive(list, vfio_ids_str) ==
    IF vfio_ids_str # <<>>
    THEN list \o <<VFIO_PCI_IDS_PREFIX \o vfio_ids_str, MODPROBE_BLACKLIST>>
    ELSE list

AddGrubVirtualizationOptionsCmdUnchecked(e) ==
    Result(TRUE, SetKey(e, GRUB_CMDLINE_LINUX_DEFAULT, StrVal(<<>>)))

\* AddGrubVirtualizationOptionsCmd.execute
AddGrubVirtualizationOptionsCmd(e) ==
    IF IOMMU_TYPE \notin DOMAIN e \/ GPU_PCI_IDS \notin DOMAIN e
       \/ GRUB_CMDLINE_LINUX_DEFAULT \notin DOMAIN e
    THEN Result(FALSE, e)
    ELSE LET vfio_ids_str == join(<<",">>, e[GPU_PCI_IDS].items)
             new_options == NewOptions(e[IOMMU_TYPE].s, vfio_ids_str)
             added == AdditiveLoop(WorkingList(e[GRUB_CMDLINE_LINUX_DEFAULT]), new_options)
             final_options_list == AppendExclusive(RemoveExclusive(added), vfio_ids_str)
         IN  Result(TRUE, SetKey(e, GRUB_CMDLINE_LINUX_DEFAULT,
                                 StrVal(join(<<" ">>, final_options_list))))

\* the dict the loop of lines 76-79 builds from the managed fragment; a later
\* line of the same parameter replaces an earlier one
RECURSIVE ExistingOptions(_)
ExistingOptions(lines) ==
    IF lines = <<>> THEN EmptyDict
    ELSE LET last == lines[Len(lines)]
         IN  SetKey(ExistingOptions(SubSeq(lines, 1, Len(lines) - 1)),
                    last.param, StrVal(QuotedGroup(last.value)))

\* line 99: one line key="value" per key of grub_options, in insertion order
GrubDContent(grub_options) ==
    <<Line(GRUB_CMDLINE_LINUX_DEFAULT, Format(grub_options[GRUB_CMDLINE_LINUX_DEFAULT])),
      Line(GRUB_CMDLINE_LINUX, Format(grub_options[GRUB_CMDLINE_LINUX]))>>

UpToDateNever(dir, grub_options) == FALSE

\* lines 69-84: the fragment exists and holds exactly grub_options
UpToDate(dir, grub_options) ==
    /\ VFIO_GRUB_NAME \in DOMAIN dir
    /\ ExistingOptions(dir[VFIO_GRUB_NAME]) = grub_options

create_grub_override_append(dir, grub_options) ==
    IF UpToDate(dir, grub_options) THEN [wrote |-> FALSE, dir |-> dir]
    ELSE [wrote |-> TRUE,
          dir |-> [f \in DOMAIN dir \cup {VFIO_GRUB_NAME} |->
                      IF f # VFIO_GRUB_NAME THEN dir[f]
                      ELSE IF f \in DOMAIN dir THEN dir[f] \o GrubDContent(grub_options)
                      ELSE GrubDContent(grub_options)]]

\* create_grub_override: whether it wrote, and the directory afterwards.
\* open(VFIO_GRUB_FILE, 'w') replaces the content of that one file.
create_grub_override(dir, grub_options) ==
    IF UpToDate(dir, grub_options) THEN [wrote |-> FALSE, dir |-> dir]
    ELSE [wrote |-> TRUE,
          dir |-> [f \in DOMAIN dir \cup {VFIO_GRUB_NAME} |->
                      IF f = VFIO_GRUB_NAME THEN GrubDContent(grub_options) ELSE dir[f]]]

\* lines 254-257
GrubOptions(e) ==
    [k \in {GRUB_CMDLINE_LINUX_DEFAULT, GRUB_CMDLINE_LINUX} |-> e[k]]

----------------------------------------------------------------------------
(* configure_memory.py: the hugepage options and ConfigureMemoryCmd *)

\* f'{n}' of an int n >= 0
RECURSIVE str_int(_)
str_int(n) ==
    LET digit == <<"0", "1", "2", "3", "4", "5", "6", "7", "8", "9">>[(n % 10) + 1]
    IN  IF n < 10 THEN <<digit>> ELSE str_int(n \div 10) \o <<digit>>

\* the tuple handed to startswith in lines 76-77
HUGEPAGE_PREFIXES == {<<"d", "e", "f", "a", "u", "l", "t", "_", "h", "u", "g", "e", "p", "a", "g", "e", "s", "z">>, <<"h", "u", "g", "e", "p", "a", "g", "e", "s", "z">>, <<"h", "u", "g", "e", "p", "a", "g", "e", "s">>}

LA57 == <<"l", "a", "5", "7">>

\* lines 70-73: grub_options.get(key, ''), split when it is a str
OptionList(grub_options, key) ==
    IF key \in DOMAIN grub_options THEN WorkingList(grub_options[key]) ELSE <<>>

KeepHugepages(list) == list

\* lines 76-77: drop every token that starts with one of the prefixes
RemoveHugepages(list) ==
    SelectSeq(list, LAMBDA opt : ~\E prefix \in HUGEPAGE_PREFIXES : startswith(opt, prefix))

\* lines 81-83
AppendHugepages(list, num_hugepages) ==
    list \o <<<<"d", "e", "f", "a", "u", "l", "t", "_", "h", "u", "g", "e", "p", "a", "g", "e", "s", "z", "=", "1", "G">>, <<"h", "u", "g", "e", "p", "a", "g", "e", "s", "z", "=", "1", "G">>,
              <<"h", "u", "g", "e", "p", "a", "g", "e", "s", "=">> \o str_int(num_hugepages)>>

\* lines 85-88: la57 is dropped and appended only when the flag is set
ApplyLa57(list, enable_5level_paging) ==
    IF enable_5level_paging
    THEN Append(SelectSeq(list, LAMBDA opt : opt # LA57), LA57)
    ELSE list

add_hugepages_to_grub_options(grub_options, num_hugepages, enable_5level_paging) ==
    LET cmdline_linux_options ==
            RemoveHugepages(OptionList(grub_options, GRUB_CMDLINE_LINUX))
        cmdline_linux_default_options ==
            ApplyLa57(AppendHugepages(RemoveHugepages(OptionList(grub_options, GRUB_CMDLINE_LINUX_DEFAULT)),
                                      num_hugepages),
                      enable_5level_paging)
    IN  SetKey(SetKey(grub_options, GRUB_CMDLINE_LINUX_DEFAULT,
                      StrVal(join(<<" ">>, cmdline_linux_default_options))),
               GRUB_CMDLINE_LINUX, StrVal(join(<<" ">>, cmdline_linux_options)))

\* what configure_memory meets on the machine and is told by the operator:
\* the RAM `free -g` reports, the hugepage count that results from the two
\* prompts, the answer about 5-level paging, and whether one of the commands
\* run through run_command fails
MemoryInput(total_ram_gb, num_hugepages, enable_5level, command_fails) ==
    [total_ram_gb |-> total_ram_gb, num_hugepages |-> num_hugepages,
     enable_5level |-> enable_5level, command_fails |-> command_fails]

\* configure_memory: the environment it leaves; below 128 GB it returns
\* before it touches the options
configure_memory(existing_options, m) ==
    IF m.total_ram_gb < 128 THEN existing_options
    ELSE add_hugepages_to_grub_options(existing_options, m.num_hugepages, m.enable_5level)

\* ConfigureMemoryCmd.execute: the two prints after configure_memory raise
\* KeyError when a key is missing, which the except turns into False
ConfigureMemoryCmd(e, m) ==
    LET after == configure_memory(e, m)
    IN  Result(GRUB_CMDLINE_LINUX_DEFAULT \in DOMAIN after /\ GRUB_CMDLINE_LINUX \in DOMAIN after,
               after)

----------------------------------------------------------------------------
(* The machine SpecGrub starts from, and the merge sequence run on it *)

MaxRuns == 2

\* values of GRUB_CMDLINE_LINUX_DEFAULT in /etc/default/grub
MainDefaultValues ==
    {<<>>,
     <<"q", "u", "i", "e", "t", " ", "s", "p", "l", "a", "s", "h">>,
     <<"i", "n", "t", "e", "l", "_", "i", "o", "m", "m", "u", "=", "o", "n">>,
     <<"i", "o", "m", "m", "u", "=", "s", "o", "f", "t", " ", "q", "u", "i", "e", "t">>,
     <<"v", "f", "i", "o", "-", "p", "c", "i", ".", "i", "d", "s", "=", "1", "0", "d", "e", ":", "1", "2", "3", "4", " ", "m", "o", "d", "p", "r", "o", "b", "e", ".", "b", "l", "a", "c", "k", "l", "i", "s", "t", "=", "n", "o", "u", "v", "e", "a", "u">>}

\* /etc/default/grub: missing, or a GRUB_CMDLINE_LINUX_DEFAULT line with or
\* without a GRUB_CMDLINE_LINUX line after it
MainFiles ==
    {[exists |-> FALSE, lines |-> <<>>]}
    \cup {[exists |-> TRUE, lines |-> <<Line(GRUB_CMDLINE_LINUX_DEFAULT, v)>>] :
            v \in MainDefaultValues}
    \cup {[exists |-> TRUE,
           lines |-> <<Line(GRUB_CMDLINE_LINUX_DEFAULT, <<"q", "u", "i", "e", "t", " ", "s", "p", "l", "a", "s", "h">>),
                       Line(GRUB_CMDLINE_LINUX, <<"c", "o", "n", "s", "o", "l", "e", "=", "t", "t", "y", "s", "0">>)>>],
          [exists |-> TRUE,
           lines |-> <<Line(GRUB_CMDLINE_LINUX_DEFAULT, <<"h", "u", "g", "e", "p", "a", "g", "e", "s", "z", "=", "2", "M", " ", "h", "u", "g", "e", "p", "a", "g", "e", "s", "=", "5", "1", "2", " ", "l", "a", "5", "7">>),
                       Line(GRUB_CMDLINE_LINUX, <<"h", "u", "g", "e", "p", "a", "g", "e", "s", "=", "4">>)>>]}

\* /etc/default/grub.d before the first run: empty, a fragment of another
\* owner, a managed fragment left by an earlier installation, or two
\* fragments next to a file that is no fragment
GrubDirs ==
    {<<>>,
     [f \in {<<"5", "0", "-", "c", "l", "o", "u", "d", "i", "m", "g", ".", "c", "f", "g">>} |->
        <<Line(GRUB_CMDLINE_LINUX_DEFAULT, <<"q", "u", "i", "e", "t", " ", "n", "o", "m", "o", "d", "e", "s", "e", "t">>)>>],
     [f \in {VFIO_GRUB_NAME} |->
        <<Line(GRUB_CMDLINE_LINUX_DEFAULT, <<"i", "o", "m", "m", "u", "=", "p", "t", " ", "v", "f", "i", "o", "-", "p", "c", "i", ".", "i", "d", "s", "=", "1", "0", "d", "e", ":", "1", "2", "3", "4">>),
          Line(GRUB_CMDLINE_LINUX, <<>>)>>],
     [f \in {<<"0", "1", "-", "a", ".", "c", "f", "g">>, <<"0", "2", "-", "b", ".", "c", "f", "g">>, <<"1", "0", "-", "o", "l", "d", ".", "c", "f", "g", ".", "b", "a", "k">>} |->
        IF f = <<"0", "1", "-", "a", ".", "c", "f", "g">>
        THEN <<Line(GRUB_CMDLINE_LINUX_DEFAULT, <<"n", "o", "m", "o", "d", "e", "s", "e", "t", " ", "i", "o", "m", "m", "u", "=", "p", "t">>)>>
        ELSE IF f = <<"0", "2", "-", "b", ".", "c", "f", "g">>
        THEN <<Line(GRUB_CMDLINE_LINUX_DEFAULT, <<"i", "o", "m", "m", "u", "=", "p", "t", " ", "d", "e", "b", "u", "g", " ", "n", "o", "m", "o", "d", "e", "s", "e", "t">>)>>
        ELSE <<Line(GRUB_CMDLINE_LINUX_DEFAULT, <<"n", "o", "a", "p", "i", "c">>)>>]}

\* /proc/cpuinfo
CpuInfos == {<<"A", "u", "t", "h", "e", "n", "t", "i", "c", "A", "M", "D">>, <<"G", "e", "n", "u", "i", "n", "e", "I", "n", "t", "e", "l">>}

GpuLine(id) == [nvidia |-> TRUE, id |-> id]

\* `lspci -nnk`: it fails, lists no NVIDIA device, or lists NVIDIA devices
LspciOutputs ==
    {[fails |-> TRUE, lines |-> <<>>],
     [fails |-> FALSE, lines |-> <<[nvidia |-> FALSE, id |-> <<"8", "0", "8", "6", ":", "1", "5", "3", "3">>]>>],
     [fails |-> FALSE, lines |-> <<GpuLine(<<>>)>>],
     [fails |-> FALSE, lines |-> <<GpuLine(<<"1", "0", "d", "e", ":", "2", "6", "8", "4">>)>>],
     [fails |-> FALSE, lines |-> <<GpuLine(<<"1", "0", "d", "e", ":", "2", "6", "8", "4">>), GpuLine(<<"1", "0", "d", "e", ":", "2", "6", "8", "4">>),
                                   GpuLine(<<"1", "0", "d", "e", ":", "1", "2", "3", "4">>)>>]}

NoAdd == [run |-> 0, ok |-> FALSE, ids |-> <<>>, baseline |-> <<>>, trace |-> <<>>]

\* nothing was read yet
NoRead == [p \in {GRUB_CMDLINE_LINUX_DEFAULT, GRUB_CMDLINE_LINUX} |-> <<>>]

\* what ConfigureMemory may meet: too little RAM, or enough RAM with the
\* operator's choice of hugepages and 5-level paging, or a failing command
MemoryInputs ==
    {MemoryInput(64, 0, FALSE, FALSE), MemoryInput(128, 0, FALSE, TRUE)}
    \cup {MemoryInput(128, 96, TRUE, FALSE), MemoryInput(128, 110, FALSE, FALSE)}

NoMem == [run |-> 0, kind |-> "none", before |-> EmptyDict, input |-> MemoryInput(0, 0, FALSE, FALSE)]

\* the steps of the merge sequence, in the order of VmOnlyWorkflow
GrubSequence ==
    <<"ReadGrubCmd", "GetIommuTypeCmd", "GetGpuPciIdsCmd",
      "AddGrubVirtualizationOptionsCmd", "ConfigureMemoryCmd",
      "CreateGrubOverrideCmd">>

AtStep(cmd) ==
    /\ ~gfailed
    /\ gstep <= Len(GrubSequence)
    /\ GrubSequence[gstep] = cmd

\* Workflow.execute goes on after a true result and stops at a false one
Advance(ok) ==
    IF ok THEN gstep' = gstep + 1 /\ UNCHANGED gfailed
    ELSE gfailed' = TRUE /\ UNCHANGED gstep

ReadGrub ==
    /\ AtStep("ReadGrubCmd")
    /\ LET r == ReadGrubCmd(genv, mainFile, grubD)
       IN  genv' = r.env /\ Advance(r.ok)
    /\ lastRead' = [p \in DOMAIN NoRead |-> AccumulatedOptions(mainFile, grubD, p)]
    /\ UNCHANGED <<mainFile, grubD, cpuinfo, lspci, grun, written, lastAdd,
                   update_grub_runs, lastMem>>
    /\ UNCHANGED <<engineVars, loaderVars, initramfsVars, auxVars>>

GetIommuType ==
    /\ AtStep("GetIommuTypeCmd")
    /\ LET r == GetIommuTypeCmd(genv, cpuinfo)
       IN  genv' = r.env /\ Advance(r.ok)
    /\ UNCHANGED <<mainFile, grubD, cpuinfo, lspci, grun, written, lastAdd,
                   update_grub_runs, lastRead, lastMem>>
    /\ UNCHANGED <<engineVars, loaderVars, initramfsVars, auxVars>>

GetGpuPciIds ==
    /\ AtStep("GetGpuPciIdsCmd")
    /\ LET r == GetGpuPciIdsCmd(genv, lspci)
       IN  genv' = r.env /\ Advance(r.ok)
    /\ UNCHANGED <<mainFile, grubD, cpuinfo, lspci, grun, written, lastAdd,
                   update_grub_runs, lastRead, lastMem>>
    /\ UNCHANGED <<engineVars, loaderVars, initramfsVars, auxVars>>

AddGrubVirtualizationOptions ==
    /\ AtStep("AddGrubVirtualizationOptionsCmd")
    /\ LET r == AddGrubVirtualizationOptionsCmd(genv)
       IN  /\ genv' = r.env
           /\ Advance(r.ok)
           /\ lastAdd' =
                IF r.ok
                THEN LET baseline == WorkingList(genv[GRUB_CMDLINE_LINUX_DEFAULT])
                         ids == genv[GPU_PCI_IDS].items
                     IN  [run |-> grun, ok |-> TRUE, ids |-> ids, baseline |-> baseline,
                          trace |-> AdditiveTrace(baseline,
                                       NewOptions(genv[IOMMU_TYPE].s, join(<<",">>, ids)))]
                ELSE [NoAdd EXCEPT !.run = grun]
    /\ UNCHANGED <<mainFile, grubD, cpuinfo, lspci, grun, written,
                   update_grub_runs, lastRead, lastMem>>
    /\ UNCHANGED <<engineVars, loaderVars, initramfsVars, auxVars>>

\* ConfigureMemoryCmd.execute.  A failing command ends in sys.exit(1) inside
\* run_command: SystemExit is no Exception, so neither the command nor
\* Workflow.execute catches it and the run ends there.
ConfigureMemory ==
    /\ AtStep("ConfigureMemoryCmd")
    /\ \E m \in MemoryInputs :
        IF m.command_fails
        THEN /\ gfailed' = TRUE
             /\ UNCHANGED <<genv, gstep>>
             /\ lastMem' = [run |-> grun, kind |-> "exit", before |-> genv, input |-> m]
        ELSE LET r == ConfigureMemoryCmd(genv, m)
             IN  /\ genv' = r.env
                 /\ Advance(r.ok)
                 /\ lastMem' = [run |-> grun,
                                kind |-> IF m.total_ram_gb < 128 THEN "untouched" ELSE "configured",
                                before |-> genv, input |-> m]
    /\ UNCHANGED <<mainFile, grubD, cpuinfo, lspci, grun, written, lastAdd,
                   update_grub_runs, lastRead>>
    /\ UNCHANGED <<engineVars, loaderVars, initramfsVars, auxVars>>

\* CreateGrubOverrideCmd.execute; update-grub may fail, which the command
\* turns into a false result
CreateGrubOverride ==
    /\ AtStep("CreateGrubOverrideCmd")
    /\ IF GRUB_CMDLINE_LINUX_DEFAULT \notin DOMAIN genv \/ GRUB_CMDLINE_LINUX \notin DOMAIN genv
       THEN /\ Advance(FALSE)
            /\ UNCHANGED <<grubD, written, update_grub_runs>>
       ELSE LET c == create_grub_override(grubD, GrubOptions(genv))
            IN  IF c.wrote
                THEN /\ grubD' = c.dir
                     /\ written' = Append(written, [run |-> grun, content |-> c.dir[VFIO_GRUB_NAME]])
                     /\ update_grub_runs' = update_grub_runs + 1
                     /\ \E update_grub_ok \in BOOLEAN : Advance(update_grub_ok)
                ELSE /\ Advance(TRUE)
                     /\ UNCHANGED <<grubD, written, update_grub_runs>>
    /\ UNCHANGED <<mainFile, cpuinfo, lspci, genv, grun, lastAdd, lastRead, lastMem>>
    /\ UNCHANGED <<engineVars, loaderVars, initramfsVars, auxVars>>

\* the operator runs the sequence again: a new execution, a new `env = {}`
StartRun ==
    /\ gfailed \/ gstep > Len(GrubSequence)
    /\ grun < MaxRuns
    /\ grun' = grun + 1
    /\ gstep' = 1
    /\ gfailed' = FALSE
    /\ genv' = EmptyDict
    /\ UNCHANGED <<mainFile, grubD, cpuinfo, lspci, written, lastAdd,
                   update_grub_runs, lastRead, lastMem>>
    /\ UNCHANGED <<engineVars, loaderVars, initramfsVars, auxVars>>

InitGrub ==
    /\ mainFile \in MainFiles
    /\ grubD \in GrubDirs
    /\ cpuinfo \in CpuInfos
    /\ lspci \in LspciOutputs
    /\ genv = EmptyDict
    /\ gstep = 1
    /\ gfailed = FALSE
    /\ grun = 1
    /\ written = <<>>
    /\ lastAdd = NoAdd
    /\ update_grub_runs = 0
    /\ lastRead = NoRead
    /\ lastMem = NoMem
    /\ EngineIdle
    /\ InitramfsIdle
    /\ AuxIdle

NextGrub ==
    \/ ReadGrub
    \/ GetIommuType
    \/ GetGpuPciIds
    \/ AddGrubVirtualizationOptions
    \/ ConfigureMemory
    \/ CreateGrubOverride
    \/ StartRun

SpecGrub == InitGrub /\ [][NextGrub]_vars

----------------------------------------------------------------------------
(* Claims about the GRUB merge, checked under SpecGrub *)

\* the tokens of GRUB_CMDLINE_LINUX_DEFAULT in the environment of the run
DefaultTokens == WorkingList(genv[GRUB_CMDLINE_LINUX_DEFAULT])

\* AddGrubVirtualizationOptions has just succeeded in the current run:
\* GRUB_CMDLINE_LINUX_DEFAULT is as it left it
AddSucceeded == lastAdd.ok /\ lastAdd.run = grun /\ gstep = 5

\* C8: every run of the merge sequence on the same machine, with the base
\* file and the other fragments untouched, writes the same content to
\* 99-cloudrift.cfg as every other run, the first and the second included.
C8_ByteIdenticalRuns ==
    \A a, b \in 1..Len(written) : written[a].content = written[b].content

\* C9: after AddGrubVirtualizationOptions succeeded with a non-empty id list,
\* GRUB_CMDLINE_LINUX_DEFAULT holds exactly one vfio-pci.ids= token, which is
\* the comma-join of the requested ids, exactly one modprobe.blacklist= token,
\* which is the fixed blacklist, and none of the baseline's other tokens of
\* these two keys.
C9_ExclusiveKeysReplaced ==
    (AddSucceeded /\ lastAdd.ids # <<>>) =>
        \A tokens \in {DefaultTokens} :
        LET vfio == {k \in 1..Len(tokens) : startswith(tokens[k], VFIO_PCI_IDS_PREFIX)}
            blacklist == {k \in 1..Len(tokens) : startswith(tokens[k], MODPROBE_BLACKLIST_PREFIX)}
            fresh == {VFIO_PCI_IDS_PREFIX \o join(<<",">>, lastAdd.ids), MODPROBE_BLACKLIST}
        IN  /\ Cardinality(vfio) = 1
            /\ \A k \in vfio : tokens[k] = VFIO_PCI_IDS_PREFIX \o join(<<",">>, lastAdd.ids)
            /\ Cardinality(blacklist) = 1
            /\ \A k \in blacklist : tokens[k] = MODPROBE_BLACKLIST
            /\ \A t \in ToSet(lastAdd.baseline) \ fresh :
                (startswith(t, VFIO_PCI_IDS_PREFIX) \/ startswith(t, MODPROBE_BLACKLIST_PREFIX))
                    => t \notin ToSet(tokens)

C9_Witness ==
    /\ AddSucceeded
    /\ lastAdd.ids = <<<<"1", "0", "d", "e", ":", "2", "6", "8", "4">>>>
    /\ <<"v", "f", "i", "o", "-", "p", "c", "i", ".", "i", "d", "s", "=", "1", "0", "d", "e", ":", "1", "2", "3", "4">> \in ToSet(lastAdd.baseline)
    /\ <<"m", "o", "d", "p", "r", "o", "b", "e", ".", "b", "l", "a", "c", "k", "l", "i", "s", "t", "=", "n", "o", "u", "v", "e", "a", "u">> \in ToSet(lastAdd.baseline)
    /\ <<"v", "f", "i", "o", "-", "p", "c", "i", ".", "i", "d", "s", "=", "1", "0", "d", "e", ":", "2", "6", "8", "4">> \in ToSet(DefaultTokens)
    /\ <<"v", "f", "i", "o", "-", "p", "c", "i", ".", "i", "d", "s", "=", "1", "0", "d", "e", ":", "1", "2", "3", "4">> \notin ToSet(DefaultTokens)

\* two tokens have the same option key
SameKey(a, b) == split_eq_0(a) = split_eq_0(b)

\* C10: in the additive step each of the six atomic options is appended
\* exactly when no token of the working list it is checked against has the
\* same option key.
C10_AppendedIffNoSameKey ==
    lastAdd.ok =>
        \A k \in 1..6 :
            lastAdd.trace[k].appended <=>
                ~\E t \in ToSet(lastAdd.trace[k].before) : SameKey(t, lastAdd.trace[k].opt)

----------------------------------------------------------------------------
(* Claims about the baseline read, checked under SpecGrub *)

ManagedParams == {GRUB_CMDLINE_LINUX_DEFAULT, GRUB_CMDLINE_LINUX}

\* ReadGrub has just run: the files are as it read them and the environment
\* holds the lists it stored
ReadJustDone == gstep = 2

\* the fragments of /etc/default/grub.d
FragmentNames == {f \in DOMAIN grubD : endswith(f, <<".", "c", "f", "g">>)}

\* every line of the base file and of the fragments
LinesOfFiles ==
    (IF mainFile.exists THEN ToSet(mainFile.lines) ELSE {})
    \cup UNION {ToSet(grubD[f]) : f \in FragmentNames}

\* the tokens the files hold for a parameter
TokensInFiles(param) ==
    UNION {ToSet(split(QuotedGroup(l.value))) : l \in {x \in LinesOfFiles : x.param = param}}

\* C11: the list ReadGrub stores for a parameter holds every token the base
\* file or a fragment has for that parameter, no other token, each token
\* exactly once, and is in ascending order whatever file a token came from.
C11_DedupSorted ==
    ReadJustDone =>
        \A param \in ManagedParams :
            LET items == genv[param].items
            IN  /\ ToSet(items) = TokensInFiles(param)
                /\ \A t \in TokensInFiles(param) :
                    Cardinality({k \in 1..Len(items) : items[k] = t}) = 1
                /\ \A j, k \in 1..Len(items) : j < k => StrLess(items[j], items[k])

C11_Witness ==
    /\ gstep = 2
    /\ ~mainFile.exists
    /\ Cardinality({k \in 1..Len(lastRead[GRUB_CMDLINE_LINUX_DEFAULT]) :
                        lastRead[GRUB_CMDLINE_LINUX_DEFAULT][k] = <<"i", "o", "m", "m", "u", "=", "p", "t">>}) = 2
    /\ genv[GRUB_CMDLINE_LINUX_DEFAULT].items = <<<<"d", "e", "b", "u", "g">>, <<"i", "o", "m", "m", "u", "=", "p", "t">>, <<"n", "o", "m", "o", "d", "e", "s", "e", "t">>>>

\* the number of tokens the fragments of a set hold for a parameter
RECURSIVE TokenCount(_, _)
TokenCount(names, param) ==
    IF names = {} THEN 0
    ELSE LET f == CHOOSE f \in names : TRUE
         IN  Len(read_options_from_file(grubD[f], param)) + TokenCount(names \ {f}, param)

\* C12: the list accumulated before deduplication starts with the tokens of
\* the base file, and the tokens of each fragment follow at the place the
\* fragments with a smaller file name leave, so an earlier-named fragment's
\* tokens precede a later-named fragment's.
C12_ReadOrder ==
    ReadJustDone =>
        \A param \in ManagedParams :
            \A base \in {IF mainFile.exists
                          THEN read_options_from_file(mainFile.lines, param) ELSE <<>>} :
            LET all == lastRead[param]
            IN  /\ Len(all) = Len(base) + TokenCount(FragmentNames, param)
                /\ SubSeq(all, 1, Len(base)) = base
                /\ \A f \in FragmentNames :
                    LET own == read_options_from_file(grubD[f], param)
                        at == Len(base)
                              + TokenCount({g \in FragmentNames : StrLess(g, f)}, param)
                    IN  SubSeq(all, at + 1, at + Len(own)) = own

C12_Witness ==
    /\ gstep = 2
    /\ lastRead[GRUB_CMDLINE_LINUX_DEFAULT] =
         <<<<"q", "u", "i", "e", "t">>, <<"s", "p", "l", "a", "s", "h">>, <<"n", "o", "m", "o", "d", "e", "s", "e", "t">>, <<"i", "o", "m", "m", "u", "=", "p", "t">>,
           <<"i", "o", "m", "m", "u", "=", "p", "t">>, <<"d", "e", "b", "u", "g">>, <<"n", "o", "m", "o", "d", "e", "s", "e", "t">>>>

\* C16: with /etc/default/grub missing ReadGrub still returns true, and the
\* lists it stores hold exactly the tokens of the fragments.
C16_MissingBaseFile ==
    ~mainFile.exists =>
        /\ ~(gstep = 1 /\ gfailed)
        /\ ReadJustDone =>
            \A param \in ManagedParams :
                ToSet(genv[param].items) =
                    UNION {ToSet(read_options_from_file(grubD[f], param)) : f \in FragmentNames}

C16_Witness ==
    /\ ~mainFile.exists
    /\ gstep = 2
    /\ genv[GRUB_CMDLINE_LINUX_DEFAULT].items = <<<<"n", "o", "m", "o", "d", "e", "s", "e", "t">>, <<"q", "u", "i", "e", "t">>>>

----------------------------------------------------------------------------
(* Claims about the merged command line and the managed fragment, checked  *)
(* under SpecGrub                                                          *)

\* C13: in the GRUB_CMDLINE_LINUX_DEFAULT that AddGrubVirtualizationOptions
\* renders, no two tokens have the same option key.
C13_EachKeyOnce ==
    AddSucceeded =>
        \A j, k \in 1..Len(DefaultTokens) :
            j # k => ~SameKey(DefaultTokens[j], DefaultTokens[k])

\* C14: no step changes /etc/default/grub or a file of /etc/default/grub.d
\* other than 99-cloudrift.cfg, no file is removed or added but that one, and
\* when 99-cloudrift.cfg changes its new content is just the lines rendered
\* from the environment, with nothing of the previous content kept before
\* them.
C14_OnlyManagedFragment ==
    [][/\ mainFile' = mainFile
       /\ DOMAIN grubD' \ {VFIO_GRUB_NAME} = DOMAIN grubD \ {VFIO_GRUB_NAME}
       /\ \A f \in DOMAIN grubD \ {VFIO_GRUB_NAME} : grubD'[f] = grubD[f]
       /\ grubD' # grubD =>
            /\ GrubSequence[gstep] = "CreateGrubOverrideCmd"
            /\ grubD'[VFIO_GRUB_NAME] = GrubDContent(GrubOptions(genv))]_vars

C14_Witness ==
    /\ Len(written) = 2
    /\ written[1].content # written[2].content
    /\ grubD[VFIO_GRUB_NAME] = written[2].content
    /\ mainFile.exists
    /\ <<"5", "0", "-", "c", "l", "o", "u", "d", "i", "m", "g", ".", "c", "f", "g">> \in DOMAIN grubD

\* CreateGrubOverride has written the fragment in the current run
WroteThisRun ==
    /\ written # <<>>
    /\ Last(written).run = grun
    /\ gstep >= Len(GrubSequence)

\* C15: the fragment CreateGrubOverride writes holds one line per managed
\* parameter, GRUB_CMDLINE_LINUX_DEFAULT then GRUB_CMDLINE_LINUX, and the
\* quoted value of each is the parameter's final tokens joined by single
\* spaces, also when ConfigureMemory left the environment untouched.
C15_SerializedLines ==
    WroteThisRun =>
        Last(written).content =
            <<Line(GRUB_CMDLINE_LINUX_DEFAULT,
                   join(<<" ">>, WorkingList(genv[GRUB_CMDLINE_LINUX_DEFAULT]))),
              Line(GRUB_CMDLINE_LINUX,
                   join(<<" ">>, WorkingList(genv[GRUB_CMDLINE_LINUX])))>>

\* how many tokens of a list satisfy a test
Count(list, Test(_)) == Cardinality({k \in 1..Len(list) : Test(list[k])})

\* C17: with an AMD CPU and the single GPU id 10de:2684, whatever the
\* baseline, GRUB_CMDLINE_LINUX_DEFAULT after AddGrubVirtualizationOptions
\* holds iommu=pt, pci=realloc, pcie_aspm=off, amd_iommu=on, nomodeset and
\* video=efifb:off, exactly one vfio-pci.ids= token, which is
\* vfio-pci.ids=10de:2684, and exactly one modprobe.blacklist= token, which
\* is the fixed blacklist.
C17_EndToEndExample ==
    (AddSucceeded /\ contains(<<"A", "M", "D">>, cpuinfo) /\ lastAdd.ids = <<<<"1", "0", "d", "e", ":", "2", "6", "8", "4">>>>) =>
        /\ {<<"i", "o", "m", "m", "u", "=", "p", "t">>, <<"p", "c", "i", "=", "r", "e", "a", "l", "l", "o", "c">>, <<"p", "c", "i", "e", "_", "a", "s", "p", "m", "=", "o", "f", "f">>, <<"a", "m", "d", "_", "i", "o", "m", "m", "u", "=", "o", "n">>,
            <<"n", "o", "m", "o", "d", "e", "s", "e", "t">>, <<"v", "i", "d", "e", "o", "=", "e", "f", "i", "f", "b", ":", "o", "f", "f">>} \subseteq ToSet(DefaultTokens)
        /\ Count(DefaultTokens, LAMBDA t : startswith(t, VFIO_PCI_IDS_PREFIX)) = 1
        /\ <<"v", "f", "i", "o", "-", "p", "c", "i", ".", "i", "d", "s", "=", "1", "0", "d", "e", ":", "2", "6", "8", "4">> \in ToSet(DefaultTokens)
        /\ Count(DefaultTokens, LAMBDA t : startswith(t, MODPROBE_BLACKLIST_PREFIX)) = 1
        /\ <<"m", "o", "d", "p", "r", "o", "b", "e", ".", "b", "l", "a", "c", "k", "l", "i", "s", "t", "=", "n", "o", "u", "v", "e", "a", "u", ",", "n", "v", "i", "d", "i", "a", ",", "n", "v", "i", "d", "i", "a", "f", "b", ",", "s", "n", "d", "_", "h", "d", "a", "_", "i", "n", "t", "e", "l">> \in ToSet(DefaultTokens)

----------------------------------------------------------------------------
(* Claims about add_hugepages_to_grub_options, checked under SpecGrub *)

\* ConfigureMemory has called add_hugepages_to_grub_options in the current
\* run and the environment is as the call left it
HugepagesJustAdded ==
    /\ lastMem.kind = "configured"
    /\ lastMem.run = grun
    /\ gstep = Len(GrubSequence)
    /\ ~gfailed

\* the tokens of both managed parameters after the call
TokensAfter ==
    split(genv[GRUB_CMDLINE_LINUX_DEFAULT].s) \o split(genv[GRUB_CMDLINE_LINUX].s)

\* the tokens of both managed parameters handed to the call
TokensBefore ==
    OptionList(lastMem.before, GRUB_CMDLINE_LINUX_DEFAULT)
    \o OptionList(lastMem.before, GRUB_CMDLINE_LINUX)

\* a token of one of the three hugepage keys
IsHugepageToken(t) ==
    split_eq_0(t) \in {<<"d", "e", "f", "a", "u", "l", "t", "_", "h", "u", "g", "e", "p", "a", "g", "e", "s", "z">>, <<"h", "u", "g", "e", "p", "a", "g", "e", "s", "z">>, <<"h", "u", "g", "e", "p", "a", "g", "e", "s">>}

\* C18: after add_hugepages_to_grub_options(options, N, flag) the two managed
\* parameters together hold exactly one default_hugepagesz= token, exactly
\* one hugepagesz= token and exactly one hugepages= token, the last with the
\* value N, and these three are the only hugepage tokens: none of the input
\* is left.
C18_HugepagesReplaced ==
    HugepagesJustAdded =>
        \A after \in {TokensAfter} :
            /\ Count(after, LAMBDA t : split_eq_0(t) = <<"d", "e", "f", "a", "u", "l", "t", "_", "h", "u", "g", "e", "p", "a", "g", "e", "s", "z">>) = 1
            /\ Count(after, LAMBDA t : split_eq_0(t) = <<"h", "u", "g", "e", "p", "a", "g", "e", "s", "z">>) = 1
            /\ Count(after, LAMBDA t : split_eq_0(t) = <<"h", "u", "g", "e", "p", "a", "g", "e", "s">>) = 1
            /\ lastMem.input.num_hugepages = 96 => <<"h", "u", "g", "e", "p", "a", "g", "e", "s", "=", "9", "6">> \in ToSet(after)
            /\ lastMem.input.num_hugepages = 110 => <<"h", "u", "g", "e", "p", "a", "g", "e", "s", "=", "1", "1", "0">> \in ToSet(after)
            /\ Count(after, IsHugepageToken) = 3

C18_Witness ==
    /\ HugepagesJustAdded
    /\ lastMem.input.num_hugepages = 110
    /\ {<<"h", "u", "g", "e", "p", "a", "g", "e", "s", "=", "9", "6">>, <<"h", "u", "g", "e", "p", "a", "g", "e", "s", "z", "=", "1", "G">>} \subseteq ToSet(TokensBefore)
    /\ <<"h", "u", "g", "e", "p", "a", "g", "e", "s", "=", "1", "1", "0">> \in ToSet(TokensAfter)
    /\ <<"h", "u", "g", "e", "p", "a", "g", "e", "s", "=", "9", "6">> \notin ToSet(TokensAfter)

\* C19: after add_hugepages_to_grub_options the result holds exactly one la57
\* token when the 5-level-paging flag is true and none when it is false,
\* whether or not the input held la57.
C19_La57Owned ==
    HugepagesJustAdded =>
        \A after \in {TokensAfter} :
            Count(after, LAMBDA t : t = LA57)
                = IF lastMem.input.enable_5level THEN 1 ELSE 0

----------------------------------------------------------------------------
(* configure_initramfs.py: UpdateInitramfsModulesCmd *)

\* modules_to_add, line 19
MODULES_TO_ADD == <<<<"v", "f", "i", "o">>, <<"v", "f", "i", "o", "_", "i", "o", "m", "m", "u", "_", "t", "y", "p", "e", "1">>, <<"v", "f", "i", "o", "_", "p", "c", "i">>, <<"v", "f", "i", "o", "_", "v", "i", "r", "q", "f", "d">>>>

\* the newline character
NL == "\n"

\* line 28: f'\n{module}\n' not in existing_modules
NotListed(module, existing_modules) ==
    ~contains(<<NL>> \o module \o <<NL>>, existing_modules)

\* lines 27-30: what the loop writes at the start of the file
RECURSIVE WrittenModules(_, _)
WrittenModules(modules_to_add, existing_modules) ==
    IF modules_to_add = <<>> THEN <<>>
    ELSE (IF NotListed(modules_to_add[1], existing_modules)
          THEN modules_to_add[1] \o <<NL>> ELSE <<>>)
         \o WrittenModules(Tail(modules_to_add), existing_modules)

\* update_initramfs_modules: what it returns and the file afterwards.  The
\* file is opened 'r+': the loop writes from offset 0 and line 32 writes the
\* text read before right after it, which covers all of the old content.  A
\* missing file ends in the except of line 41.
update_initramfs_modules(file) ==
    IF ~file.exists THEN [updated |-> FALSE, file |-> file]
    ELSE LET head == WrittenModules(MODULES_TO_ADD, file.text)
         IN  [updated |-> head # <<>>,
              file |-> [exists |-> TRUE, text |-> head \o file.text]]

\* s followed by a newline
Ln(s) == s \o <<NL>>

\* the lines /etc/initramfs-tools/modules is made of before the first run
ModuleLines ==
    {<<"#", " ", "m", "o", "d", "u", "l", "e", "s">>, <<"l", "o", "o", "p">>, <<"v", "f", "i", "o">>, <<"v", "f", "i", "o", "_", "i", "o", "m", "m", "u", "_", "t", "y", "p", "e", "1">>, <<"v", "f", "i", "o", "_", "p", "c", "i">>, <<"v", "f", "i", "o", "_", "v", "i", "r", "q", "f", "d">>}

\* /etc/initramfs-tools/modules before the first run: missing, empty, one or
\* two lines with or without a newline after the last, or the comment and
\* all four modules
ModulesFiles ==
    {[exists |-> FALSE, text |-> <<>>], [exists |-> TRUE, text |-> <<>>]}
    \cup {[exists |-> TRUE, text |-> t] :
            t \in {Ln(a) : a \in ModuleLines} \cup ModuleLines
                  \cup {Ln(a) \o Ln(b) : a, b \in ModuleLines}
                  \cup {Ln(a) \o b : a, b \in ModuleLines}}
    \cup {[exists |-> TRUE,
           text |-> Ln(<<"#", " ", "m", "o", "d", "u", "l", "e", "s">>) \o Ln(<<"v", "f", "i", "o">>) \o Ln(<<"v", "f", "i", "o", "_", "i", "o", "m", "m", "u", "_", "t", "y", "p", "e", "1">>)
                    \o Ln(<<"v", "f", "i", "o", "_", "p", "c", "i">>) \o Ln(<<"v", "f", "i", "o", "_", "v", "i", "r", "q", "f", "d">>)]}

\* UpdateInitramfsModulesCmd.execute: update-initramfs runs when the file
\* was updated, and a failure of it is turned into a false result
UpdateInitramfsModules ==
    /\ irun < MaxRuns
    /\ irun' = irun + 1
    /\ LET u == update_initramfs_modules(modules)
       IN  /\ modules' = u.file
           /\ ihistory' = Append(ihistory, u.file.text)
           /\ IF u.updated
              THEN /\ update_initramfs_runs' = update_initramfs_runs + 1
                   /\ \E update_initramfs_ok \in BOOLEAN :
                        ireports' = Append(ireports, [updated |-> TRUE,
                                                      result |-> update_initramfs_ok])
              ELSE /\ ireports' = Append(ireports, [updated |-> FALSE, result |-> TRUE])
                   /\ UNCHANGED update_initramfs_runs
    /\ UNCHANGED <<engineVars, loaderVars, grubVars, auxVars>>

InitInitramfs ==
    /\ modules \in ModulesFiles
    /\ irun = 0
    /\ ireports = <<>>
    /\ ihistory = <<>>
    /\ update_initramfs_runs = 0
    /\ EngineIdle
    /\ GrubIdle
    /\ AuxIdle

NextInitramfs == UpdateInitramfsModules

SpecInitramfs == InitInitramfs /\ [][NextInitramfs]_vars

----------------------------------------------------------------------------
(* Claims about UpdateInitramfsModules, checked under SpecInitramfs *)

\* how many lines of a text are the given module name
LineCount(text, module) ==
    Cardinality({k \in 1..(Len(text) - Len(module) + 1) :
                    /\ SubSeq(text, k, k + Len(module) - 1) = module
                    /\ k = 1 \/ text[k - 1] = NL
                    /\ k + Len(module) - 1 = Len(text) \/ text[k + Len(module)] = NL})

\* C20: whatever /etc/initramfs-tools/modules held at first, the second run
\* of UpdateInitramfsModules leaves the file as the first run left it,
\* reports no update, and lists none of the four modules more often than
\* the first run did.
C20_InitramfsIdempotent ==
    (modules.exists /\ Len(ihistory) >= 2) =>
        /\ ihistory[2] = ihistory[1]
        /\ ~ireports[2].updated
        /\ \A k \in 1..Len(MODULES_TO_ADD) :
            LineCount(ihistory[2], MODULES_TO_ADD[k]) <= LineCount(ihistory[1], MODULES_TO_ADD[k])

----------------------------------------------------------------------------
(* Command discovery, commands/__init__.py *)

\* commands/cmd.py, which defines BaseCmd, and the modules defining commands
BaseModule == "cmd"
CommandModules == {"mod_a", "mod_b"}

\* the order in which pkgutil.iter_modules lists the package: by name
ModuleOrder == <<"cmd", "mod_a", "mod_b">>

\* dir(module) lists the names of a module in sorted order
AttributeOrder == <<"BaseCmd", "CmdA", "CmdB", "Path">>

\* how import_module can end: the module, an ImportError, another exception
ImportOutcomes == {"ok", "ImportError", "Error"}

\* how command_class() can end
CtorOutcomes == {"ok", "TypeError", "Exception"}

\* the names each module imports: BaseCmd from .cmd, and in one module Path
Imports(module) ==
    CASE module = "cmd" -> {}
      [] module = "mod_a" -> {"BaseCmd"}
      [] OTHER -> {"BaseCmd", "Path"}

\* a package: each command class is defined in one module
Packages ==
    {[m \in 1..Len(ModuleOrder) |->
        [name |-> ModuleOrder[m],
         imported |-> IF ModuleOrder[m] = BaseModule THEN "ok" ELSE how[ModuleOrder[m]],
         attrs |-> IF ModuleOrder[m] = BaseModule THEN {"BaseCmd"}
                   ELSE {c \in CommandClasses : where[c] = ModuleOrder[m]}
                        \cup Imports(ModuleOrder[m])]] :
     where \in [CommandClasses -> CommandModules],
     how \in [CommandModules -> ImportOutcomes]}

\* inspect.isclass, inspect.isabstract, issubclass(., BaseCmd), __name__
isclass(attribute) == attribute \in {"BaseCmd", "Path"} \cup CommandClasses
isabstract(attribute) == attribute = "BaseCmd"
issubclass_BaseCmd(attribute) == attribute \in {"BaseCmd"} \cup CommandClasses

IsCommandClassAnyClass(attribute) ==
    isclass(attribute) /\ issubclass_BaseCmd(attribute)

\* the test of lines 38-41
IsCommandClass(attribute) ==
    /\ isclass(attribute)
    /\ ~isabstract(attribute)
    /\ issubclass_BaseCmd(attribute)
    /\ attribute # "BaseCmd"

\* calling a class: an abstract class cannot be instantiated (TypeError)
Construct(command_class) ==
    IF isabstract(command_class) THEN "TypeError" ELSE ctor[command_class]

\* create_command_instance: the instance, or None after a caught exception
create_command_instance(command_class) ==
    IF Construct(command_class) = "ok" THEN command_class ELSE "None"

\* dir(imported_module)
dir(module) == SelectSeq(AttributeOrder, LAMBDA a: a \in module.attrs)

\* what lines 42-47 and create_command_instance print for one class found
FoundLog(command_class) ==
    <<[kind |-> "found", subject |-> command_class]>>
    \o (IF create_command_instance(command_class) = "None"
        THEN <<[kind |-> "failed", subject |-> command_class],
               [kind |-> "skipped", subject |-> command_class]>>
        ELSE <<>>)

RECURSIVE ScanLog(_)
ScanLog(found) ==
    IF found = <<>> THEN <<>>
    ELSE FoundLog(Head(found)) \o ScanLog(Tail(found))

\* one iteration of the loop of lines 29-47
ScanModule ==
    /\ rpc = "scanning"
    /\ midx <= Len(package)
    /\ LET module == package[midx]
           found == SelectSeq(dir(module), IsCommandClass)
           instances == SelectSeq(found, LAMBDA c: create_command_instance(c) # "None")
       IN  CASE module.imported = "ok" ->
                    /\ constructed' = constructed \o found
                    /\ all_commands' = all_commands \o instances
                    /\ rlog' = rlog \o ScanLog(found)
                    /\ midx' = midx + 1
                    /\ UNCHANGED rpc
              [] module.imported = "ImportError" ->
                    /\ rlog' = Append(rlog, [kind |-> "import_failed", subject |-> module.name])
                    /\ midx' = midx + 1
                    /\ UNCHANGED <<rpc, constructed, all_commands>>
              [] OTHER ->
                    /\ rpc' = "raised"
                    /\ UNCHANGED <<midx, rlog, constructed, all_commands>>
    /\ UNCHANGED <<package, ctor, command_map, lookup>>
    /\ UNCHANGED <<engineVars, defn, loadError, grubVars, initramfsVars, cliVars, qemuVars, builtinVars>>

\* line 49: command_map = {cmd.__class__.__name__: cmd for cmd in all_commands}
BuildMap ==
    /\ rpc = "scanning"
    /\ midx > Len(package)
    /\ command_map' = [c \in ToSet(all_commands) |-> c]
    /\ rpc' = "done"
    /\ UNCHANGED <<package, ctor, midx, all_commands, constructed, rlog, lookup>>
    /\ UNCHANGED <<engineVars, defn, loadError, grubVars, initramfsVars, cliVars, qemuVars, builtinVars>>

\* get_all_commands()
get_all_commands == all_commands

\* what a caller may pass as a command identifier
Identifiers ==
    {"CmdA", "CmdB", "cmda", "Command A", "command a", "COMMAND B", "0", "1", "2", "3", "nope"}

\* the overrides of name() in the command classes ("Read GRUB Parameters", ...)
display_name(cmd) ==
    CASE cmd = "CmdA" -> "Command A"
      [] cmd = "CmdB" -> "Command B"
      [] OTHER -> name(cmd)

\* str.lower() on identifiers and display names
str_lower(s) ==
    CASE s \in {"CmdA", "cmda"} -> "cmda"
      [] s \in {"CmdB", "cmdb"} -> "cmdb"
      [] s \in {"Command A", "command a"} -> "command a"
      [] s \in {"Command B", "COMMAND B", "command b"} -> "command b"
      [] s \in {"Workflow A", "workflow a"} -> "workflow a"
      [] s \in {"Workflow B", "WORKFLOW B", "workflow b"} -> "workflow b"
      [] OTHER -> s

\* int(s) raises ValueError unless s is a number
ValueError(s) == s \notin {"0", "1", "2", "3"}

\* int(s) for the numbers among the identifiers
int(s) ==
    CASE s = "0" -> 0
      [] s = "1" -> 1
      [] s = "2" -> 2
      [] OTHER -> 3

\* configure.py NODE_COMMANDS: instances configure.py constructs itself
NODE_COMMANDS == <<"CmdA", "CmdB">>

\* lines 303-320 of execute_specific_command and 234-250 of execute_workflow:
\* a 1-based index if the identifier is a number, else the first entry whose
\* display name equals it, ignoring case
\* the result is command_index / workflow_index, 0 standing for None
\* names: the name() of every entry of the list
resolve_index(names, identifier) ==
    IF ~ValueError(identifier)
    THEN LET index == int(identifier) - 1
         IN  IF 0 <= index /\ index < Len(names) THEN index + 1 ELSE 0
    ELSE LET hits == {k \in 1..Len(names) :
                        str_lower(names[k]) = str_lower(identifier)}
         IN  IF hits = {} THEN 0 ELSE Min(hits)

\* command.name() for command in NODE_COMMANDS
CommandNames == [k \in 1..Len(NODE_COMMANDS) |-> display_name(NODE_COMMANDS[k])]

\* command_to_execute
resolve(identifier) ==
    LET index == resolve_index(CommandNames, identifier)
    IN  IF index = 0 THEN "None" ELSE NODE_COMMANDS[index]

\* a caller resolves an identifier through the registry and through the CLI
Resolve ==
    /\ rpc = "done"
    /\ \E id \in Identifiers:
        lookup' = [id |-> id,
                   registry |-> get_command(id),
                   cli |-> resolve(id)]
    /\ UNCHANGED <<package, ctor, rpc, midx, all_commands, constructed, rlog>>
    /\ UNCHANGED <<engineVars, loaderVars, grubVars, initramfsVars, cliVars, qemuVars, builtinVars>>

InitRegistry ==
    /\ package \in Packages
    /\ ctor \in [CommandClasses -> CtorOutcomes]
    /\ rpc = "scanning"
    /\ midx = 1
    /\ all_commands = <<>>
    /\ constructed = <<>>
    /\ rlog = <<>>
    /\ lookup = <<>>
    /\ EngineIdle
    /\ GrubIdle
    /\ InitramfsIdle
    /\ CliIdle
    /\ QemuIdle
    /\ BuiltinIdle

NextRegistry == ScanModule \/ BuildMap \/ Resolve

SpecRegistry == InitRegistry /\ [][NextRegistry]_vars

----------------------------------------------------------------------------
(* Claims about command discovery, checked under SpecRegistry *)

\* the modules discovery has gone through and imported
Scanned == {m \in 1..(midx - 1) : package[m].imported = "ok"}

\* the concrete BaseCmd implementations defined in the modules gone through
ImplementationsFound ==
    {c \in CommandClasses : \E m \in Scanned : c \in package[m].attrs}

\* C21: discovery calls the constructor exactly once for each concrete
\* BaseCmd implementation of the modules it imported and never for BaseCmd;
\* get_all_commands() holds one instance of each such class whose constructor
\* succeeded, no class twice and no instance of BaseCmd.
C21_OneInstancePerClass ==
    /\ \A c \in ImplementationsFound: Count(constructed, LAMBDA x: x = c) = 1
    /\ \A c \in ToSet(constructed): c \in ImplementationsFound
    /\ Count(constructed, LAMBDA x: x = "BaseCmd") = 0
    /\ \A c \in ImplementationsFound:
        Count(get_all_commands, LAMBDA x: x = c) = (IF ctor[c] = "ok" THEN 1 ELSE 0)
    /\ \A c \in ToSet(get_all_commands): Count(get_all_commands, LAMBDA x: x = c) = 1
    /\ "BaseCmd" \notin ToSet(get_all_commands)

C21_Witness ==
    /\ rpc = "done"
    /\ get_all_commands = <<"CmdA", "CmdB">>
    /\ \E m \in 1..Len(package): {"CmdA", "CmdB", "BaseCmd", "Path"} \subseteq package[m].attrs


\* a failure discovery met: an import that failed, a constructor that failed
ImportFailed(m) == package[m].imported # "ok"
CtorFailed(c) == ctor[c] # "ok"

\* the implementations that can be constructed and whose module can be imported
Constructible ==
    {c \in CommandClasses :
        /\ ~CtorFailed(c)
        /\ \E m \in 1..Len(package): c \in package[m].attrs /\ ~ImportFailed(m)}

\* C22: discovery never raises, and once it is over every failed import and
\* every failed construction has been logged, the failed implementations are
\* not registered and every constructible implementation is registered.
C22_SkipsFailures ==
    /\ rpc # "raised"
    /\ rpc = "done" =>
        /\ \A m \in 1..Len(package):
            ImportFailed(m) =>
                [kind |-> "import_failed", subject |-> package[m].name] \in ToSet(rlog)
        /\ \A c \in ImplementationsFound:
            CtorFailed(c) =>
                /\ [kind |-> "failed", subject |-> c] \in ToSet(rlog)
                /\ [kind |-> "skipped", subject |-> c] \in ToSet(rlog)
                /\ c \notin ToSet(get_all_commands)
        /\ Constructible = ToSet(get_all_commands)
        /\ Constructible = DOMAIN command_map


\* C23: a lookup through the registry returns the registered instance whose
\* class name is the identifier and none for any other identifier, and the
\* CLI's run-one-command path resolves exactly the identifiers the registry
\* resolves, to the same class.
C23_OneIdentifierScheme ==
    lookup # <<>> =>
        /\ lookup.registry =
            (IF lookup.id \in ToSet(get_all_commands) THEN lookup.id ELSE "None")
        /\ lookup.cli = lookup.registry

----------------------------------------------------------------------------
(* The command line of configure.py: execute_workflow, execute_specific_command *)

\* configure.py WORKFLOWS: the built-in workflows and their command lists
WORKFLOWS ==
    <<[name |-> "Workflow A",
       commands |-> [k \in 1..MaxSteps |-> IF k % 2 = 1 THEN "CmdA" ELSE "CmdB"]],
      [name |-> "Workflow B", commands |-> <<"CmdB">>]>>

\* what --workflow and --command may be given
CliIdentifiers ==
    {"0", "1", "2", "3", "Workflow A", "workflow a", "WORKFLOW B",
     "Command A", "command a", "COMMAND B", "CmdA", "nope"}

\* the effective user ids: root and an ordinary user
Euids == {0, 1000}

PrivilegedAlways(uid) == TRUE

\* `if os.geteuid() != 0: ... sys.exit(1)` lets only root pass
Privileged(uid) == uid = 0

\* workflow.name() for workflow in WORKFLOWS
WorkflowNames == [k \in 1..Len(WORKFLOWS) |-> WORKFLOWS[k].name]

WorkflowStatusCancelFails(value) ==
    IF value = "True" THEN 0 ELSE 1

\* lines 263-271: what execute_workflow does with the value execute returned;
\* 0 stands for running on to reboot_server and the end of main
WorkflowStatus(value) ==
    CASE value = "None" -> 0
      [] Truthy(value) -> 0
      [] OTHER -> 1

\* lines 335-343: what execute_specific_command does with the way execute
\* ended; sys.exit(1) inside a command leaves with that status
CommandStatus(o) ==
    IF AfterStep(o) = "continue" THEN 0 ELSE 1

\* lines 230-232 and 300-302: the privilege check
CheckPrivilege ==
    /\ cpc = "start"
    /\ IF Privileged(euid)
       THEN cpc' = "resolve" /\ UNCHANGED exit_status
       ELSE cpc' = "exited" /\ exit_status' = 1
    /\ UNCHANGED <<euid, mode, cli_identifier, selected, cmd_result, rebooted>>
    /\ UNCHANGED <<engineVars, loaderVars, grubVars, initramfsVars, registryVars, qemuVars, builtinVars>>

\* execute_workflow lines 234-261: resolve the workflow, call its execute
ResolveWorkflow ==
    /\ cpc = "resolve"
    /\ mode = "workflow"
    /\ LET workflow_index == resolve_index(WorkflowNames, cli_identifier)
       IN  IF workflow_index = 0
           THEN /\ cpc' = "exited"
                /\ exit_status' = 1
                /\ UNCHANGED <<selected, commands, pc>>
           ELSE /\ cpc' = "executing"
                /\ selected' = WORKFLOWS[workflow_index].name
                /\ commands' = WORKFLOWS[workflow_index].commands
                /\ pc' = "Pending"
                /\ UNCHANGED exit_status
    /\ UNCHANGED <<euid, mode, cli_identifier, cmd_result, rebooted>>
    /\ UNCHANGED <<overlays, i, env, input, answer, retval, invoked, returned,
                   observed, writes, out>>
    /\ UNCHANGED <<loaderVars, grubVars, initramfsVars, registryVars, qemuVars, builtinVars>>

\* execute_workflow lines 262-280: the exit status after execute has ended,
\* and reboot_server after a completed run
EndWorkflow ==
    /\ cpc = "executing"
    /\ mode = "workflow"
    /\ Terminal
    /\ cpc' = "exited"
    /\ IF pc = "Exited"
       THEN exit_status' = 1 /\ UNCHANGED rebooted
       ELSE /\ exit_status' = WorkflowStatus(retval)
            /\ IF Truthy(retval)
               THEN \E typed \in Inputs: rebooted' = yes_no_prompt(FALSE, typed)
               ELSE UNCHANGED rebooted
    /\ UNCHANGED <<euid, mode, cli_identifier, selected, cmd_result>>
    /\ UNCHANGED <<engineVars, loaderVars, grubVars, initramfsVars, registryVars, qemuVars, builtinVars>>

\* execute_specific_command lines 304-325: resolve the command
ResolveCommand ==
    /\ cpc = "resolve"
    /\ mode = "command"
    /\ LET command_to_execute == resolve(cli_identifier)
       IN  IF command_to_execute = "None"
           THEN cpc' = "exited" /\ exit_status' = 1 /\ UNCHANGED selected
           ELSE cpc' = "executing" /\ selected' = command_to_execute /\ UNCHANGED exit_status
    /\ UNCHANGED <<euid, mode, cli_identifier, cmd_result, rebooted>>
    /\ UNCHANGED <<engineVars, loaderVars, grubVars, initramfsVars, registryVars, qemuVars, builtinVars>>

\* execute_specific_command lines 327-347: run the command, exit
ExecuteCommand ==
    /\ cpc = "executing"
    /\ mode = "command"
    /\ \E o \in Outcomes:
        /\ cmd_result' = o
        /\ exit_status' = CommandStatus(o)
    /\ cpc' = "exited"
    /\ UNCHANGED <<euid, mode, cli_identifier, selected, rebooted>>
    /\ UNCHANGED <<engineVars, loaderVars, grubVars, initramfsVars, registryVars, qemuVars, builtinVars>>

\* main was given --workflow or --command; no workflow is executing yet
InitCli ==
    /\ euid \in Euids
    /\ mode \in {"workflow", "command"}
    /\ cli_identifier \in CliIdentifiers
    /\ cpc = "start"
    /\ selected = "None"
    /\ cmd_result = <<>>
    /\ rebooted = FALSE
    /\ exit_status = "running"
    /\ commands = <<>>
    /\ overlays = <<>>
    /\ pc = "NotStarted"
    /\ i = 1
    /\ env = EmptyEnv
    /\ input = "unasked"
    /\ answer = "unasked"
    /\ retval = "unset"
    /\ invoked = <<>>
    /\ returned = <<>>
    /\ observed = <<>>
    /\ writes = <<>>
    /\ out = <<>>
    /\ defn = NoDefinition
    /\ command_map = <<>>
    /\ loadError = NoError
    /\ GrubIdle
    /\ InitramfsIdle
    /\ RegistryIdle
    /\ QemuIdle
    /\ BuiltinIdle

NextCli ==
    \/ CheckPrivilege
    \/ ResolveWorkflow
    \/ Confirm
    \/ Step
    \/ Finish
    \/ EndWorkflow
    \/ ResolveCommand
    \/ ExecuteCommand

SpecCli == InitCli /\ [][NextCli]_vars

----------------------------------------------------------------------------
(* Claims about the command line, checked under SpecCli *)

\* C24: a process whose effective user id is not 0 never leaves NotStarted:
\* it shows no confirmation prompt, invokes no step and no command, reports
\* nothing, and once the privilege check has run it has exited with status 1.
C24_PrivilegeRequired ==
    euid # 0 =>
        /\ pc = "NotStarted"
        /\ input = "unasked"
        /\ invoked = <<>>
        /\ writes = <<>>
        /\ out = <<>>
        /\ cmd_result = <<>>
        /\ selected = "None"
        /\ cpc \in {"start", "exited"}
        /\ cpc = "exited" => exit_status = 1

C24_Witness ==
    /\ euid = 1000
    /\ mode = "workflow"
    /\ cli_identifier = "1"
    /\ cpc = "exited"
    /\ exit_status = 1


\* the identifier resolved to no workflow, respectively to no command
Unresolvable ==
    IF mode = "workflow"
    THEN resolve_index(WorkflowNames, cli_identifier) = 0
    ELSE resolve_index(CommandNames, cli_identifier) = 0

\* a step of the workflow, or the command run on its own, returned a falsy
\* value or raised
RunFailed ==
    \/ mode = "workflow" /\ pc \in {"Failed", "Exited"}
    \/ /\ mode = "command"
       /\ cmd_result # <<>>
       /\ ~(cmd_result.kind = "return" /\ cmd_result.value = "True")

----------------------------------------------------------------------------
(* Claims about the progress report and retries, checked under Spec *)

\* the reports about steps, in the order they were printed
StepReports ==
    SelectSeq(out, LAMBDA r: r.kind \in {"start", "success", "failed", "exception"})

\* the kind of outcome report owed for the way an execute ended
OwedKind(o) ==
    CASE o.kind = "return" /\ o.value = "True" -> "success"
      [] o.kind = "return" -> "failed"
      [] OTHER -> "exception"

\* C26: the reports about steps are, for each invoked step in invocation
\* order, its start report (index, name, description) followed by exactly one
\* outcome report for that step (success, failure, or failure with
\* exception), and nothing else: no step that was not invoked is reported.
C26_ReportsPerStep ==
    /\ Len(StepReports) = 2 * Len(invoked)
    /\ \A j \in 1..Len(invoked):
        /\ StepReports[2 * j - 1].kind = "start"
        /\ StepReports[2 * j - 1].step = invoked[j]
        /\ StepReports[2 * j - 1].name = name(commands[invoked[j]])
        /\ StepReports[2 * j - 1].description = description(commands[invoked[j]])
        /\ StepReports[2 * j].kind = OwedKind(returned[j])
        /\ StepReports[2 * j].step = invoked[j]


\* a step that ended otherwise than by returning a true value
StepFailed(o) == ~(o.kind = "return" /\ Truthy(o.value))

\* C27: no step index occurs twice among the invocations of one execution,
\* and a failed step is the last step invoked: once a step has failed the
\* list of invocations never grows again.
C27_NoRetry ==
    /\ \A j, k \in 1..Len(invoked): j < k => invoked[j] < invoked[k]
    /\ \A k \in 1..Len(returned): StepFailed(returned[k]) => k = Len(invoked)
    /\ pc \in {"Failed", "Exited", "Cancelled", "Completed"} => ~ENABLED Step

C27_Witness ==
    /\ Len(commands) = 3
    /\ invoked = <<1, 2>>
    /\ returned[1].kind = "return" /\ returned[1].value = "True"
    /\ returned[2].kind = "return" /\ returned[2].value = "None"
    /\ pc = "Failed"

----------------------------------------------------------------------------
(* qemu.conf, commands/configure_libvirt.py *)

USER_ROOT == <<"u", "s", "e", "r", " ", "=", " ", "\"", "r", "o", "o", "t", "\"">>
GROUP_ROOT == <<"g", "r", "o", "u", "p", " ", "=", " ", "\"", "r", "o", "o", "t", "\"">>
USER_KEY == <<"u", "s", "e", "r", " ", "=">>
GROUP_KEY == <<"g", "r", "o", "u", "p", " ", "=">>

\* str.splitlines() for texts whose only line break is "\n"
splitlines(s) ==
    LET breaks == {k \in 1..Len(s) : s[k] = NL}
        ends == breaks \cup (IF s # <<>> /\ s[Len(s)] # NL THEN {Len(s) + 1} ELSE {})
        StartOf(e) == IF \E b \in breaks : b < e
                      THEN (CHOOSE b \in breaks : b < e /\ \A c \in breaks : c < e => c <= b) + 1
                      ELSE 1
        Nth(n) == CHOOSE e \in ends : Cardinality({d \in ends : d < e}) = n - 1
    IN  [n \in 1..Cardinality(ends) |-> SubSeq(s, StartOf(Nth(n)), Nth(n) - 1)]

\* str.strip() for lines whose only white space is the blank
strip(s) ==
    LET inked == {k \in 1..Len(s) : s[k] # " "}
    IN  IF inked = {} THEN <<>>
        ELSE SubSeq(s, CHOOSE k \in inked : \A j \in inked : k <= j,
                       CHOOSE k \in inked : \A j \in inked : j <= k)

\* QEMU_CONF.read_text() if QEMU_CONF.exists() else ""
read_text(conf) == IF conf.exists THEN conf.text ELSE <<>>

\* line 18: both settings occur somewhere in the text
AlreadySet(contents) ==
    contains(USER_ROOT, contents) /\ contains(GROUP_ROOT, contents)

\* lines 30-43 (user) and 46-59 (group): what the loop does for one line and
\* one setting
LineAction(line, key, root) ==
    CASE startswith(strip(line), <<"#">>) /\ contains(key, line) -> "uncomment"
      [] startswith(strip(line), key) /\ ~contains(root, line) -> "update"
      [] contains(root, line) -> "found"
      [] OTHER -> "none"

\* lines[i] after the body of the loop: the group branch assigns last
NewLine(line) ==
    LET u == LineAction(line, USER_KEY, USER_ROOT)
        g == LineAction(line, GROUP_KEY, GROUP_ROOT)
    IN  IF g \in {"uncomment", "update"} THEN GROUP_ROOT
        ELSE IF u \in {"uncomment", "update"} THEN USER_ROOT
        ELSE line

\* ensure_qemu_conf_lines on the file conf: the result and the file after
ensure_qemu_conf_lines(conf) ==
    LET contents == read_text(conf)
        lines == IF contents # <<>> THEN splitlines(contents) ELSE <<>>
        user_found == \E k \in 1..Len(lines) :
                        LineAction(lines[k], USER_KEY, USER_ROOT) # "none"
        group_found == \E k \in 1..Len(lines) :
                        LineAction(lines[k], GROUP_KEY, GROUP_ROOT) # "none"
        modified == \/ \E k \in 1..Len(lines) :
                        \/ LineAction(lines[k], USER_KEY, USER_ROOT) \in {"uncomment", "update"}
                        \/ LineAction(lines[k], GROUP_KEY, GROUP_ROOT) \in {"uncomment", "update"}
                    \/ ~user_found
                    \/ ~group_found
        final == [k \in 1..Len(lines) |-> NewLine(lines[k])]
                 \o (IF user_found THEN <<>> ELSE <<USER_ROOT>>)
                 \o (IF group_found THEN <<>> ELSE <<GROUP_ROOT>>)
    IN  IF AlreadySet(contents) THEN [result |-> FALSE, conf |-> conf]
        ELSE IF modified
        THEN [result |-> TRUE,
              conf |-> [exists |-> TRUE, text |-> join(<<NL>>, final) \o <<NL>>]]
        ELSE [result |-> FALSE, conf |-> conf]

\* verify_qemu_conf
verify_qemu_conf(conf) ==
    LET contents == read_text(conf)
        user_ok == contains(USER_ROOT, contents)
        group_ok == contains(GROUP_ROOT, contents)
    IN  user_ok /\ group_ok

\* the lines qemu.conf is made of before the first call
QemuLines ==
    [comment |-> <<"#", " ", "C", "o", "n", "f", "i", "g">>,
     user_root |-> <<"u", "s", "e", "r", " ", "=", " ", "\"", "r", "o", "o", "t", "\"">>,
     group_root |-> <<"g", "r", "o", "u", "p", " ", "=", " ", "\"", "r", "o", "o", "t", "\"">>,
     user_qemu |-> <<"u", "s", "e", "r", " ", "=", " ", "\"", "q", "e", "m", "u", "\"">>,
     group_kvm |-> <<"g", "r", "o", "u", "p", " ", "=", " ", "\"", "k", "v", "m", "\"">>,
     c_user_root |-> <<"#", "u", "s", "e", "r", " ", "=", " ", "\"", "r", "o", "o", "t", "\"">>,
     c_group_root |-> <<"#", "g", "r", "o", "u", "p", " ", "=", " ", "\"", "r", "o", "o", "t", "\"">>,
     c_user_qemu |-> <<"#", "u", "s", "e", "r", " ", "=", " ", "\"", "q", "e", "m", "u", "\"">>,
     c_group_qemu |-> <<"#", "g", "r", "o", "u", "p", " ", "=", " ", "\"", "q", "e", "m", "u", "\"">>,
     c_user_blank |-> <<"#", " ", "u", "s", "e", "r", " ", "=", " ", "\"", "q", "e", "m", "u", "\"">>,
     c_group_blank |-> <<"#", " ", " ", "g", "r", "o", "u", "p", " ", "=", " ", "\"", "q", "e", "m", "u", "\"">>,
     example_user |-> <<"#", " ", " ", " ", " ", " ", " ", " ", "u", "s", "e", "r", " ", "=", " ", "\"", "q", "e", "m", "u", "\"", " ", " ", " ", "#", " ", "A", " ", "u", "s", "e", "r", " ", "n", "a", "m", "e", "d", " ", "\"", "q", "e", "m", "u", "\"">>,
     example_uid |-> <<"#", " ", " ", " ", " ", " ", " ", " ", "u", "s", "e", "r", " ", "=", " ", "\"", "+", "0", "\"", " ", " ", " ", " ", " ", "#", " ", "S", "u", "p", "e", "r", " ", "u", "s", "e", "r", " ", "(", "u", "i", "d", "=", "0", ")">>,
     ownership |-> <<"#", "d", "y", "n", "a", "m", "i", "c", "_", "o", "w", "n", "e", "r", "s", "h", "i", "p", " ", "=", " ", "1">>]

\* the selections of lines the file starts from
QemuSelections ==
    {<<>>,
     <<"comment">>,
     <<"comment", "user_root", "group_root", "ownership">>,
     <<"user_root", "group_root">>,
     <<"comment", "c_user_qemu", "c_group_qemu", "ownership">>,
     <<"c_user_qemu", "c_group_qemu">>,
     <<"comment", "c_user_blank", "c_group_blank", "ownership">>,
     <<"comment", "user_qemu", "group_kvm", "ownership">>,
     <<"user_qemu", "group_kvm">>,
     <<"comment", "c_user_qemu", "group_kvm", "ownership">>,
     <<"comment", "user_root", "c_group_qemu", "ownership">>,
     <<"comment", "c_user_qemu", "group_root", "ownership">>,
     <<"comment", "user_root", "group_kvm", "ownership">>,
     <<"comment", "user_root">>,
     <<"group_root">>,
     <<"comment", "c_user_root", "c_group_root", "ownership">>,
     <<"c_user_root", "c_group_root">>,
     <<"c_user_root", "group_root">>,
     <<"comment", "example_user", "example_uid", "c_user_qemu", "c_group_qemu", "ownership">>,
     <<"comment", "example_user", "example_uid", "c_user_root", "c_group_root", "ownership">>,
     <<"example_user", "group_root">>}

\* /etc/libvirt/qemu.conf before the first call: missing, empty, or a
\* selection of lines with or without a line break after the last line
QemuConfs ==
    {[exists |-> FALSE, text |-> <<>>]}
    \cup {[exists |-> TRUE,
           text |-> join(<<NL>>, [k \in 1..Len(sel) |-> QemuLines[sel[k]]]) \o tail] :
          sel \in QemuSelections, tail \in {<<>>, <<NL>>}}

\* one call of ensure_qemu_conf_lines
EnsureQemuConfLines ==
    /\ Len(qhistory) < MaxRuns
    /\ LET r == ensure_qemu_conf_lines(qemu_conf)
       IN  /\ qemu_conf' = r.conf
           /\ qhistory' = Append(qhistory, [before |-> qemu_conf, result |-> r.result,
                                            after |-> r.conf])
    /\ UNCHANGED verified
    /\ UNCHANGED <<engineVars, loaderVars, grubVars, initramfsVars, registryVars, cliVars, builtinVars>>

\* one call of verify_qemu_conf
VerifyQemuConf ==
    /\ IF verified = <<>> THEN TRUE ELSE verified.conf # qemu_conf
    /\ verified' = [conf |-> qemu_conf, result |-> verify_qemu_conf(qemu_conf)]
    /\ UNCHANGED <<qemu_conf, qhistory>>
    /\ UNCHANGED <<engineVars, loaderVars, grubVars, initramfsVars, registryVars, cliVars, builtinVars>>

InitQemu ==
    /\ qemu_conf \in QemuConfs
    /\ qhistory = <<>>
    /\ verified = <<>>
    /\ EngineIdle
    /\ GrubIdle
    /\ InitramfsIdle
    /\ RegistryIdle
    /\ CliIdle
    /\ BuiltinIdle

NextQemu == EnsureQemuConfLines \/ VerifyQemuConf

SpecQemu == InitQemu /\ [][NextQemu]_vars

----------------------------------------------------------------------------
(* Claims about qemu.conf, checked under SpecQemu *)

\* a line that is not a comment and holds the setting
IsUncommented(line, setting) ==
    ~startswith(strip(line), <<"#">>) /\ contains(setting, line)

\* the number of uncommented lines of the file holding the setting
UncommentedCount(conf, setting) ==
    Count(splitlines(read_text(conf)), LAMBDA l: IsUncommented(l, setting))

\* the file has both settings uncommented and set to root
BothSet(conf) ==
    /\ conf.exists
    /\ UncommentedCount(conf, USER_ROOT) >= 1
    /\ UncommentedCount(conf, GROUP_ROOT) >= 1

\* C28: a call of ensure_qemu_conf_lines on a file that does not have both
\* settings uncommented and set to root returns True and leaves a file that
\* has them; a call on a file that has both returns False and leaves the file
\* as it was; every call after the first returns False.
C28_EnsureResult ==
    \A k \in 1..Len(qhistory):
        LET h == qhistory[k]
        IN  /\ IF BothSet(h.before)
               THEN h.result = FALSE /\ h.after = h.before
               ELSE h.result = TRUE /\ BothSet(h.after)
            /\ k > 1 => h.result = FALSE

\* a line that is not a comment and sets the key to something else than root
SetsOther(line, key, root) ==
    startswith(strip(line), key) /\ ~contains(root, line)

\* C29: the file a call of ensure_qemu_conf_lines has written holds exactly
\* one uncommented user = "root" line, exactly one uncommented
\* group = "root" line, and no line setting user or group to another value.
C29_ExactlyOneOfEach ==
    \A k \in 1..Len(qhistory):
        LET h == qhistory[k]
        IN  h.result =>
                /\ UncommentedCount(h.after, USER_ROOT) = 1
                /\ UncommentedCount(h.after, GROUP_ROOT) = 1
                /\ \A l \in ToSet(splitlines(read_text(h.after))):
                    /\ ~SetsOther(l, USER_KEY, USER_ROOT)
                    /\ ~SetsOther(l, GROUP_KEY, GROUP_ROOT)

\* C30: verify_qemu_conf returns True exactly when the file exists and has
\* both settings uncommented and set to root.
C30_VerifyIff ==
    verified # <<>> => (verified.result <=> BothSet(verified.conf))

----------------------------------------------------------------------------
(* The built-in workflows of configure.py 128-198 run by Workflow.execute.  *)
(* A command instance is written as its class name; a value of the          *)
(* environment is a tuple of strings.                                       *)

REQUIRED_PACKAGES ==
    <<"qemu-kvm", "libvirt-daemon-system", "genisoimage", "whois", "mdadm">>

\* VmOnlyWorkflow.__init__: self.commands
VmOnlyWorkflow ==
    <<"CheckVirtualizationCmd", "RemoveNvidiaDriverCmd", "AptInstallCmd",
      "ConfigureDockerCmd", "ConfigureLibvirtCmd", "ReadGrubCmd",
      "GetIommuTypeCmd", "GetGpuPciIdsCmd", "AddGrubVirtualizationOptionsCmd",
      "UpdateInitramfsModulesCmd", "CreateVfioConfCmd", "ConfigureGpuPowerCmd",
      "ConfigureMemoryCmd", "ConfigureDisksCmd", "CreateGrubOverrideCmd",
      "VerifyGpuPowerStateCmd">>

\* VmAndDockerWorkflow.__init__: self.commands
VmAndDockerWorkflow ==
    <<"CheckVirtualizationCmd", "AptInstallCmd", "RemoveGrubOverrideCmd",
      "InstallNvidiaDriverCmd", "ConfigureDockerCmd", "InstallNvidiaCudaToolkitCmd",
      "ConfigureLibvirtCmd", "ReadGrubCmd", "GetIommuTypeCmd", "GetGpuPciIdsCmd",
      "AddGrubVirtualizationOptionsCmd", "UpdateInitramfsModulesCmd",
      "CreateVfioConfCmd", "ConfigureGpuPowerCmd", "ConfigureMemoryCmd",
      "ConfigureDisksCmd", "CreateGrubOverrideCmd", "VerifyGpuPowerStateCmd">>

\* TestWorkflow.__init__: self.commands
TestWorkflow ==
    <<"CheckVirtualizationCmd", "AptInstallCmd", "InstallNvidiaDriverCmd",
      "RemoveGrubOverrideCmd", "InstallNvidiaCudaToolkitCmd">>

BuiltinWorkflows == {VmOnlyWorkflow, VmAndDockerWorkflow, TestWorkflow}

PACKAGES == "packages"

\* some value a command assigned to a key
Assigned == <<"assigned">>

\* the dicts a caller may hand to Workflow.execute
CallerEnvs ==
    {EmptyEnv,
     [k \in {PACKAGES, GRUB_CMDLINE_LINUX_DEFAULT} |->
        IF k = PACKAGES THEN <<"vim">> ELSE Assigned]}

Returns(value) == [kind |-> "return", value |-> value, msg |-> ""]

Exits == [kind |-> "exit", value |-> "", msg |-> ""]

NoEffect == [packages |-> <<>>, installed |-> FALSE]

\* one way an execute can go: how it ends, what it assigns to the
\* environment, what it installs
Behaviour(o, keys, effect) ==
    [o |-> o, w |-> [k \in keys |-> Assigned], effect |-> effect]

\* the keys execute checks before it does anything
Requires(cmd) ==
    CASE cmd = "AddGrubVirtualizationOptionsCmd" ->
            {IOMMU_TYPE, GPU_PCI_IDS, GRUB_CMDLINE_LINUX_DEFAULT}
      [] cmd = "CreateGrubOverrideCmd" ->
            {GRUB_CMDLINE_LINUX_DEFAULT, GRUB_CMDLINE_LINUX}
      [] OTHER -> {}

\* AptInstallCmd.execute: packages = env.get("packages", []); apt-get update
\* runs always, apt-get install only for a non-empty list
AptInstallCmd(e) ==
    LET packages == IF PACKAGES \in DOMAIN e THEN e[PACKAGES] ELSE <<>>
    IN  {Behaviour(Returns("True"), {},
                   [packages |-> packages, installed |-> Len(packages) > 0]),
         Behaviour(Returns("False"), {}, [packages |-> packages, installed |-> FALSE])}

\* ConfigureMemoryCmd.execute: configure_memory returns early below 128 GB
\* and the prints of lines 236-237 need both keys; otherwise it rewrites both
\* keys, and a failing external command ends the process through sys.exit(1)
\* before (run_command) or after (persist_mount) the keys are rewritten
ConfigureMemoryBehaviours(e) ==
    LET both == {GRUB_CMDLINE_LINUX_DEFAULT, GRUB_CMDLINE_LINUX}
    IN  {Behaviour(Returns(IF both \subseteq DOMAIN e THEN "True" ELSE "False"), {}, NoEffect),
         Behaviour(Returns("True"), both, NoEffect),
         Behaviour(Returns("False"), both, NoEffect),
         Behaviour(Exits, {}, NoEffect),
         Behaviour(Exits, both, NoEffect)}

\* the ways execute of a command of the built-in workflows can go when it is
\* handed the environment e
Behaviours(cmd, e) ==
    CASE cmd = "AptInstallCmd" -> AptInstallCmd(e)
      [] cmd = "ReadGrubCmd" ->
            {Behaviour(Returns("True"),
                       {GRUB_CMDLINE_LINUX_DEFAULT, GRUB_CMDLINE_LINUX}, NoEffect)}
      [] cmd = "GetIommuTypeCmd" ->
            {Behaviour(Returns("True"), {IOMMU_TYPE}, NoEffect)}
      [] cmd = "GetGpuPciIdsCmd" ->
            {Behaviour(Returns("True"), {GPU_PCI_IDS}, NoEffect),
             Behaviour(Returns("False"), {}, NoEffect)}
      [] cmd = "AddGrubVirtualizationOptionsCmd" ->
            IF Requires(cmd) \subseteq DOMAIN e
            THEN {Behaviour(Returns("True"), {GRUB_CMDLINE_LINUX_DEFAULT}, NoEffect)}
            ELSE {Behaviour(Returns("False"), {}, NoEffect)}
      [] cmd = "ConfigureMemoryCmd" -> ConfigureMemoryBehaviours(e)
      [] cmd = "CreateGrubOverrideCmd" ->
            IF Requires(cmd) \subseteq DOMAIN e
            THEN {Behaviour(Returns("True"), {}, NoEffect),
                  Behaviour(Returns("False"), {}, NoEffect)}
            ELSE {Behaviour(Returns("False"), {}, NoEffect)}
      [] OTHER ->
            {Behaviour(o, {}, NoEffect) : o \in {x \in Outcomes : x.kind # "exit"}}

NewEnvKeepsPassed(passed) == [dict |-> passed, ref |-> "caller"]

\* line 76, `env = {}`: the local name env is bound to a new empty dict and
\* the dict the caller passed is no longer reachable through it
NewEnv(passed) == [dict |-> EmptyEnv, ref |-> "local"]

\* lines 60-76 for a built-in workflow
ConfirmBuiltin ==
    /\ pc = "Pending"
    /\ \E typed \in Inputs:
        LET ans == yes_no_prompt(TRUE, typed)
        IN  /\ input' = typed
            /\ answer' = (IF ans THEN "True" ELSE "False")
            /\ IF Cancels(ans)
               THEN /\ pc' = "Cancelled"
                    /\ retval' = "None"
                    /\ out' = Append(out, [kind |-> "cancelled", step |-> 0, total |-> Len(commands),
                                           name |-> "", description |-> "", msg |-> ""])
                    /\ UNCHANGED <<env, env_ref>>
               ELSE /\ pc' = "Running"
                    /\ env' = NewEnv(env).dict
                    /\ env_ref' = NewEnv(env).ref
                    /\ UNCHANGED <<retval, out>>
    /\ UNCHANGED <<commands, overlays, i, invoked, returned, observed, writes>>
    /\ UNCHANGED <<caller_env, execution, left_env, effects>>
    /\ UNCHANGED <<loaderVars, grubVars, initramfsVars, registryVars, cliVars, qemuVars>>

\* one iteration of the loop of lines 79-99 over a built-in workflow: the
\* assignments of the command go to the dict env refers to
StepBuiltin ==
    /\ pc = "Running"
    /\ i <= Len(commands)
    /\ \E b \in Behaviours(commands[i], EnvForStep(env)) :
        LET what == AfterStep(b.o)
            handed == EnvForStep(env)
        IN  /\ invoked' = Append(invoked, i)
            /\ returned' = Append(returned, b.o)
            /\ observed' = Append(observed, handed)
            /\ writes' = Append(writes, b.w)
            /\ effects' = Append(effects, b.effect)
            /\ env' = Assign(handed, b.w)
            /\ caller_env' = IF env_ref = "caller" THEN Assign(handed, b.w) ELSE caller_env
            /\ out' = Append(out, StartReport(i)) \o OutcomeReport(i, b.o)
            /\ IF what = "continue"
               THEN /\ i' = NextIndex(i)
                    /\ UNCHANGED <<pc, retval>>
               ELSE IF what \in {"fail", "fail_exception"}
               THEN /\ pc' = "Failed"
                    /\ retval' = "False"
                    /\ UNCHANGED i
               ELSE /\ pc' = "Exited"
                    /\ UNCHANGED <<i, retval>>
    /\ UNCHANGED <<commands, overlays, input, answer, env_ref, execution, left_env>>
    /\ UNCHANGED <<loaderVars, grubVars, initramfsVars, registryVars, cliVars, qemuVars>>

\* the caller calls execute of a built-in workflow again, with the same dict
ExecuteAgain ==
    /\ pc \in {"Completed", "Failed", "Cancelled"}
    /\ execution < MaxRuns
    /\ execution' = execution + 1
    /\ commands' \in BuiltinWorkflows
    /\ left_env' = (IF pc = "Cancelled" THEN left_env ELSE env)
    /\ env' = caller_env
    /\ env_ref' = "caller"
    /\ pc' = "Pending"
    /\ i' = 1
    /\ input' = "unasked"
    /\ answer' = "unasked"
    /\ retval' = "unset"
    /\ invoked' = <<>>
    /\ returned' = <<>>
    /\ observed' = <<>>
    /\ writes' = <<>>
    /\ out' = <<>>
    /\ effects' = <<>>
    /\ UNCHANGED <<overlays, caller_env>>
    /\ UNCHANGED <<loaderVars, grubVars, initramfsVars, registryVars, cliVars, qemuVars>>

\* workflow.execute(env): the parameter env refers to the caller's dict
InitBuiltin ==
    /\ commands \in BuiltinWorkflows
    /\ overlays = <<>>
    /\ defn = NoDefinition
    /\ command_map = <<>>
    /\ loadError = NoError
    /\ caller_env \in CallerEnvs
    /\ env = caller_env
    /\ env_ref = "caller"
    /\ execution = 1
    /\ left_env = EmptyEnv
    /\ effects = <<>>
    /\ pc = "Pending"
    /\ i = 1
    /\ input = "unasked"
    /\ answer = "unasked"
    /\ retval = "unset"
    /\ invoked = <<>>
    /\ returned = <<>>
    /\ observed = <<>>
    /\ writes = <<>>
    /\ out = <<>>
    /\ GrubIdle
    /\ InitramfsIdle
    /\ RegistryIdle
    /\ CliIdle
    /\ QemuIdle

NextBuiltin == ConfirmBuiltin \/ StepBuiltin \/ Finish \/ ExecuteAgain

SpecBuiltin == InitBuiltin /\ [][NextBuiltin]_vars

----------------------------------------------------------------------------
(* Claims about the built-in workflows, checked under SpecBuiltin *)

\* the class of the k-th invoked step
InvokedClass(k) == commands[invoked[k]]

\* an execute of class cmd returned a true value before the k-th invoked step
ReturnedTrueBefore(k, cmd) ==
    \E j \in 1..(k - 1) :
        /\ InvokedClass(j) = cmd
        /\ returned[j].kind = "return"
        /\ Truthy(returned[j].value)

\* C31: in every execution of a built-in workflow, when
\* AddGrubVirtualizationOptions is invoked, ReadGrub, GetIommuType and
\* GetGpuPciIds have returned true before it in this execution, when
\* CreateGrubOverride is invoked, ReadGrub, AddGrubVirtualizationOptions and
\* ConfigureMemory have, and in both cases the keys the command requires are
\* in the environment it is handed.
C31_OrderingDependencies ==
    \A k \in 1..Len(invoked) :
        /\ InvokedClass(k) = "AddGrubVirtualizationOptionsCmd" =>
            /\ \A cmd \in {"ReadGrubCmd", "GetIommuTypeCmd", "GetGpuPciIdsCmd"} :
                    ReturnedTrueBefore(k, cmd)
            /\ Requires(InvokedClass(k)) \subseteq DOMAIN observed[k]
        /\ InvokedClass(k) = "CreateGrubOverrideCmd" =>
            /\ \A cmd \in {"ReadGrubCmd", "AddGrubVirtualizationOptionsCmd",
                           "ConfigureMemoryCmd"} :
                    ReturnedTrueBefore(k, cmd)
            /\ Requires(InvokedClass(k)) \subseteq DOMAIN observed[k]

\* CreateGrubOverride was invoked in an execution of a built-in workflow
C31_Witness ==
    /\ Len(invoked) > 0
    /\ InvokedClass(Len(invoked)) = "CreateGrubOverrideCmd"
    /\ \E k \in 1..Len(invoked) : InvokedClass(k) = "AddGrubVirtualizationOptionsCmd"

----------------------------------------------------------------------------
(* Further claims about the GRUB merge, checked under SpecGrub *)

\* the tokens of a list that belong neither to the hugepage keys nor to la57
OtherTokens(list) ==
    SelectSeq(list, LAMBDA t : ~IsHugepageToken(t) /\ t # LA57)

\* C32: after add_hugepages_to_grub_options GRUB_CMDLINE_LINUX holds no
\* hugepage token, GRUB_CMDLINE_LINUX_DEFAULT holds the three fresh hugepage
\* tokens, and the tokens of either parameter that are neither hugepage
\* tokens nor la57 are the ones the parameter had before, in the same order.
C32_HugepagesInOneParameter ==
    HugepagesJustAdded =>
        \A default \in {split(genv[GRUB_CMDLINE_LINUX_DEFAULT].s)} :
        \A linux \in {split(genv[GRUB_CMDLINE_LINUX].s)} :
            /\ \A k \in 1..Len(linux) :
                    /\ ~IsHugepageToken(linux[k])
                    /\ \A prefix \in HUGEPAGE_PREFIXES : ~startswith(linux[k], prefix)
            /\ {<<"d", "e", "f", "a", "u", "l", "t", "_", "h", "u", "g", "e", "p", "a", "g", "e", "s", "z", "=", "1", "G">>, <<"h", "u", "g", "e", "p", "a", "g", "e", "s", "z", "=", "1", "G">>,
                <<"h", "u", "g", "e", "p", "a", "g", "e", "s", "=">> \o str_int(lastMem.input.num_hugepages)}
                    \subseteq ToSet(default)
            /\ OtherTokens(default)
                    = OtherTokens(OptionList(lastMem.before, GRUB_CMDLINE_LINUX_DEFAULT))
            /\ OtherTokens(linux)
                    = OtherTokens(OptionList(lastMem.before, GRUB_CMDLINE_LINUX))

\* the call met a hugepage token in GRUB_CMDLINE_LINUX and other tokens in
\* both parameters
C32_Witness ==
    /\ HugepagesJustAdded
    /\ \E k \in 1..Len(OptionList(lastMem.before, GRUB_CMDLINE_LINUX)) :
            IsHugepageToken(OptionList(lastMem.before, GRUB_CMDLINE_LINUX)[k])
    /\ Len(OtherTokens(OptionList(lastMem.before, GRUB_CMDLINE_LINUX_DEFAULT))) > 1
    /\ Len(OtherTokens(split(genv[GRUB_CMDLINE_LINUX].s))) > 0

----------------------------------------------------------------------------
(* Further claims about the built-in workflows, checked under SpecBuiltin *)

\* C33: when the package-install step of a built-in workflow has returned
\* true, it has installed the packages of REQUIRED_PACKAGES, whatever the
\* environment held.
C33_InstallsRequiredPackages ==
    \A k \in 1..Len(invoked) :
        (/\ InvokedClass(k) = "AptInstallCmd"
         /\ returned[k].kind = "return"
         /\ Truthy(returned[k].value))
            => /\ effects[k].installed
               /\ effects[k].packages = REQUIRED_PACKAGES


\* the values the managed fragment would hold after grub_options is written
\* to it, as the loop of lines 76-79 reads them back
RequestedValues(grub_options) ==
    [k \in DOMAIN grub_options |-> StrVal(QuotedGroup(Format(grub_options[k])))]

\* the managed fragment exists and its values are the requested ones
FragmentHoldsRequested(grub_d, grub_options) ==
    /\ VFIO_GRUB_NAME \in DOMAIN grub_d
    /\ ExistingOptions(grub_d[VFIO_GRUB_NAME]) = RequestedValues(grub_options)

\* C34: a CreateGrubOverride step that finds its keys writes the managed
\* fragment and runs update-grub exactly when the values of the existing
\* fragment differ from the requested ones; when the fragment holds the
\* requested values it writes nothing, does not run update-grub and returns
\* true.
C34_WriteOnlyWhenDifferent ==
    [][(/\ AtStep("CreateGrubOverrideCmd")
        /\ {GRUB_CMDLINE_LINUX_DEFAULT, GRUB_CMDLINE_LINUX} \subseteq DOMAIN genv
        /\ gstep' # gstep \/ gfailed' # gfailed)
       => IF FragmentHoldsRequested(grubD, GrubOptions(genv))
          THEN /\ grubD' = grubD
               /\ written' = written
               /\ update_grub_runs' = update_grub_runs
               /\ gstep' = gstep + 1
               /\ ~gfailed'
          ELSE /\ Len(written') = Len(written) + 1
               /\ grubD'[VFIO_GRUB_NAME] = GrubDContent(GrubOptions(genv))
               /\ update_grub_runs' = update_grub_runs + 1]_vars

\* CreateGrubOverride has returned true in a run in which it wrote nothing,
\* after a run that wrote the fragment
C34_Witness ==
    /\ gstep > Len(GrubSequence)
    /\ ~gfailed
    /\ grun > 1
    /\ written # <<>>
    /\ Last(written).run < grun
    /\ update_grub_runs = Len(written)


\* the keys assigned by the steps invoked before the k-th in this execution
WrittenBefore(k) == UNION {DOMAIN writes[j] : j \in 1..(k - 1)}

\* C35: every execution starts from an empty environment: a step is handed
\* only keys that earlier steps of the same execution assigned, neither keys
\* of the dict the caller passed nor keys of an earlier execution, and the
\* dict the caller passed is never changed.
C35_FreshEnvironment ==
    /\ [](\A k \in 1..Len(observed) : DOMAIN observed[k] \subseteq WrittenBefore(k))
    /\ [](pc = "Running" /\ invoked = <<>> => env = EmptyEnv)
    /\ [][caller_env' = caller_env]_vars

\* a later execution, called with a dict that holds keys after an execution
\* that assigned keys, has invoked steps and assigned keys of its own
C35_Witness ==
    /\ execution > 1
    /\ caller_env # EmptyEnv
    /\ GPU_PCI_IDS \in DOMAIN left_env
    /\ Len(observed) > 1
    /\ env # EmptyEnv
    /\ env # left_env

----------------------------------------------------------------------------
(* A GRUB consumer command executed on its own, as execute_specific_command *)
(* and a workflow of another order execute it: SpecConsumer                 *)

\* the value each producer assigns to its key
ProducedValue(key) ==
    CASE key = IOMMU_TYPE -> StrVal(<<"a", "m", "d", "_", "i", "o", "m", "m", "u", "=", "o", "n">>)
      [] key = GPU_PCI_IDS -> ListVal(<<<<"1", "0", "d", "e", ":", "2", "6", "8", "4">>>>)
      [] key = GRUB_CMDLINE_LINUX_DEFAULT -> ListVal(<<<<"q", "u", "i", "e", "t">>, <<"s", "p", "l", "a", "s", "h">>>>)
      [] OTHER -> ListVal(<<>>)

\* the environments a consumer may be handed: any of the four keys may be
\* missing, and the id list may be empty
ConsumerEnvs ==
    {[k \in K |-> ProducedValue(k)] :
        K \in SUBSET {IOMMU_TYPE, GPU_PCI_IDS, GRUB_CMDLINE_LINUX_DEFAULT, GRUB_CMDLINE_LINUX}}
    \cup {[k \in K \cup {GPU_PCI_IDS} |->
            IF k = GPU_PCI_IDS THEN ListVal(<<>>) ELSE ProducedValue(k)] :
        K \in SUBSET {IOMMU_TYPE, GRUB_CMDLINE_LINUX_DEFAULT, GRUB_CMDLINE_LINUX}}

\* how the execute ended, and what it was handed
ConsumerResult(cmd, ok, e, grub_d) ==
    [command |-> cmd, o |-> Returns(IF ok THEN "True" ELSE "False"),
     before |-> e, grub_d |-> grub_d]

\* AddGrubVirtualizationOptionsCmd().execute(env)
RunAddGrubVirtualizationOptions ==
    /\ cmd_result = <<>>
    /\ LET r == AddGrubVirtualizationOptionsCmd(genv)
       IN  /\ genv' = r.env
           /\ cmd_result' = ConsumerResult("AddGrubVirtualizationOptionsCmd", r.ok, genv, grubD)
    /\ UNCHANGED <<mainFile, grubD, cpuinfo, lspci, gstep, gfailed, grun, written,
                   lastAdd, update_grub_runs, lastRead, lastMem>>
    /\ UNCHANGED <<euid, mode, cli_identifier, cpc, selected, rebooted, exit_status>>
    /\ UNCHANGED <<engineVars, loaderVars, initramfsVars, registryVars, qemuVars, builtinVars>>

\* CreateGrubOverrideCmd().execute(env); update-grub may fail, which the
\* command turns into a false result
RunCreateGrubOverride ==
    /\ cmd_result = <<>>
    /\ IF GRUB_CMDLINE_LINUX_DEFAULT \notin DOMAIN genv \/ GRUB_CMDLINE_LINUX \notin DOMAIN genv
       THEN /\ cmd_result' = ConsumerResult("CreateGrubOverrideCmd", FALSE, genv, grubD)
            /\ UNCHANGED <<grubD, written, update_grub_runs>>
       ELSE LET c == create_grub_override(grubD, GrubOptions(genv))
            IN  IF c.wrote
                THEN /\ grubD' = c.dir
                     /\ written' = Append(written, [run |-> grun, content |-> c.dir[VFIO_GRUB_NAME]])
                     /\ update_grub_runs' = update_grub_runs + 1
                     /\ \E update_grub_ok \in BOOLEAN :
                            cmd_result' = ConsumerResult("CreateGrubOverrideCmd", update_grub_ok,
                                                         genv, grubD)
                ELSE /\ cmd_result' = ConsumerResult("CreateGrubOverrideCmd", TRUE, genv, grubD)
                     /\ UNCHANGED <<grubD, written, update_grub_runs>>
    /\ UNCHANGED <<mainFile, cpuinfo, lspci, genv, gstep, gfailed, grun,
                   lastAdd, lastRead, lastMem>>
    /\ UNCHANGED <<euid, mode, cli_identifier, cpc, selected, rebooted, exit_status>>
    /\ UNCHANGED <<engineVars, loaderVars, initramfsVars, registryVars, qemuVars, builtinVars>>

InitConsumer ==
    /\ genv \in ConsumerEnvs
    /\ grubD \in GrubDirs
    /\ mainFile = [exists |-> FALSE, lines |-> <<>>]
    /\ cpuinfo = <<>>
    /\ lspci = [fails |-> TRUE, lines |-> <<>>]
    /\ gstep = 1
    /\ gfailed = FALSE
    /\ grun = 1
    /\ written = <<>>
    /\ lastAdd = <<>>
    /\ update_grub_runs = 0
    /\ lastRead = <<>>
    /\ lastMem = <<>>
    /\ EngineIdle
    /\ InitramfsIdle
    /\ AuxIdle

NextConsumer == RunAddGrubVirtualizationOptions \/ RunCreateGrubOverride

SpecConsumer == InitConsumer /\ [][NextConsumer]_vars

\* C36: a GRUB consumer handed an environment without one of the keys it
\* requires returns false, raises nothing, leaves the environment as it was
\* and writes no file.
C36_MissingKeysFailCleanly ==
    (/\ cmd_result # <<>>
     /\ ~(Requires(cmd_result.command) \subseteq DOMAIN cmd_result.before))
        => /\ cmd_result.o = Returns("False")
           /\ genv = cmd_result.before
           /\ grubD = cmd_result.grub_d
           /\ written = <<>>
           /\ update_grub_runs = 0

\* CreateGrubOverride was handed GRUB_CMDLINE_LINUX_DEFAULT without
\* GRUB_CMDLINE_LINUX while a managed fragment existed
C36_WitnessCreate ==
    /\ cmd_result # <<>>
    /\ cmd_result.command = "CreateGrubOverrideCmd"
    /\ GRUB_CMDLINE_LINUX_DEFAULT \in DOMAIN cmd_result.before
    /\ GRUB_CMDLINE_LINUX \notin DOMAIN cmd_result.before
    /\ VFIO_GRUB_NAME \in DOMAIN grubD

\* AddGrubVirtualizationOptions was handed an environment without GPU_PCI_IDS
C36_Witness ==
    /\ cmd_result # <<>>
    /\ cmd_result.command = "AddGrubVirtualizationOptionsCmd"
    /\ {IOMMU_TYPE, GRUB_CMDLINE_LINUX_DEFAULT} \subseteq DOMAIN cmd_result.before
    /\ GPU_PCI_IDS \notin DOMAIN cmd_result.before

----------------------------------------------------------------------------
(* Further claims about AddGrubVirtualizationOptions, checked under SpecGrub *)

\* a token of one of the two keys the command owns
IsExclusiveToken(t) ==
    startswith(t, VFIO_PCI_IDS_PREFIX) \/ startswith(t, MODPROBE_BLACKLIST_PREFIX)

\* AddGrubVirtualizationOptions has just run in the current run, handed an
\* empty id list
AddedWithoutIds ==
    /\ lastAdd.run = grun
    /\ (gstep = 5 /\ ~gfailed) \/ (gstep = 4 /\ gfailed)
    /\ GPU_PCI_IDS \in DOMAIN genv
    /\ genv[GPU_PCI_IDS].items = <<>>

\* C37: handed an empty id list, AddGrubVirtualizationOptions succeeds, its
\* result holds no vfio-pci.ids= token and no modprobe.blacklist= token,
\* whatever the baseline held, and the other baseline tokens are kept in
\* their order.
C37_EmptyIdList ==
    AddedWithoutIds =>
        /\ lastAdd.ok
        /\ ~gfailed
        /\ \A tokens \in {DefaultTokens} :
            /\ \A k \in 1..Len(tokens) : ~IsExclusiveToken(tokens[k])
            /\ \A kept \in {SelectSeq(lastAdd.baseline, LAMBDA t : ~IsExclusiveToken(t))} :
                /\ Len(kept) <= Len(tokens)
                /\ SubSeq(tokens, 1, Len(kept)) = kept

\* the baseline held tokens of both owned keys next to another token
C37_Witness ==
    /\ AddedWithoutIds
    /\ lastAdd.ok
    /\ \E k \in 1..Len(lastAdd.baseline) : startswith(lastAdd.baseline[k], VFIO_PCI_IDS_PREFIX)
    /\ \E k \in 1..Len(lastAdd.baseline) : startswith(lastAdd.baseline[k], MODPROBE_BLACKLIST_PREFIX)
    /\ \E k \in 1..Len(lastAdd.baseline) : ~IsExclusiveToken(lastAdd.baseline[k])


\* the tokens of the values of a fragment content, each with its parameter
TokensOfContent(content) ==
    UNION {{<<content[k].param, t>> : t \in ToSet(split(content[k].value))} :
            k \in 1..Len(content)}

\* C38: of two writes of the managed fragment that follow each other, the
\* later being of the second run or after, the later content is the earlier
\* one and holds no more tokens than it.
C38_RunsConverge ==
    \A a \in 2..Len(written) :
        written[a].run >= 2 =>
            /\ written[a].content = written[a - 1].content
            /\ Cardinality(TokensOfContent(written[a].content))
                    <= Cardinality(TokensOfContent(written[a - 1].content))

\* the tokens alone: no write holds more tokens than the write before it
C38_TokensNeverGrow ==
    \A a \in 2..Len(written) :
        Cardinality(TokensOfContent(written[a].content))
            <= Cardinality(TokensOfContent(written[a - 1].content))


\* C39: no execute ends the process: every invoked step hands control back
\* to Workflow.execute, and an execution is Pending, Running or ended as
\* Completed, Failed or Cancelled.
C39_NoCommandEndsProcess ==
    /\ pc \in {"Pending", "Running", "Completed", "Failed", "Cancelled"}
    /\ \A k \in 1..Len(returned) : returned[k].kind # "exit"

====
